---- MODULE Spec2Model ----
(***************************************************************************)
(* Model of the DOM snapshot builder (advancedDomSnapshot.js), the action  *)
(* executor (executeAction) and the orchestration loop of the              *)
(* /run-campaign handler.                                                  *)
(*                                                                         *)
(* Three specifications share this module:                                 *)
(*   SpecSnap  - buildAdvancedDomSnapshot over bounded documents           *)
(*   SpecExec  - executeAction over bounded actions, pages and failures    *)
(*   SpecLoop  - the main automation loop of the Playwright handler        *)
(***************************************************************************)
EXTENDS Integers, Sequences, FiniteSets, TLC

VARIABLES
  \* ---- snapshot builder ----
  doc,          \* the live document the page currently holds
  snapshot,     \* result of the latest buildAdvancedDomSnapshot call
  prevSnapshot, \* result of the call before it
  \* ---- action executor ----
  xAction,      \* the action handed to executeAction
  xPage,        \* the page (search section, indicators, checkboxes, input)
  xTrace,       \* page operations issued by the call, in order
  xResult,      \* what the call produced: pending, returned value or throw
  \* ---- orchestration loop ----
  pc,                  \* position of the handler
  currentStep,         \* let currentStep
  consecutiveFailures, \* let consecutiveFailures
  automationSteps,     \* const automationSteps = []
  faults,              \* failed operations the run has met so far
  fallbackCalls,       \* number of automateResquared calls
  executeCalls,        \* number of executeAction calls the handler has made
  response,            \* what res.json / res.status(500).json sent
  \* ---- request validation of the /run-campaign handlers ----
  rqHandler,    \* which handler received the request
  rqBody,       \* req.body: prompt, saasUrl, saasUsername, saasPassword
  rqStarted,    \* external operations the handler has started, in order
  rqResponse,   \* the response sent so far, if any
  \* ---- two campaign runs side by side ----
  runPc,        \* per run: position within one loop iteration
  runStep,      \* per run: its currentStep
  files,        \* the screenshots directory: path -> run whose capture it holds
  uploaded,     \* per run: whose capture it uploaded for its latest question
  \* ---- getAssistantResponse ----
  pollImpl,     \* which of the two implementations is running
  runStatus,    \* status of the upstream run as last reported
  polls,        \* runs.retrieve calls made (counted up to MaxPolls)
  tick,         \* parity of the one-second timers that have fired
  pollResult,   \* pending, or what getAssistantResponse returned
  cycle,   \* one campaign run seen as observe / decide / execute cycles
  gx,   \* one call of the executeAction of grok.js: action, page, trace, result
  shut,   \* the SIGINT handler: sessions listed, stops attempted, position
  urlCall,   \* one call of ensureUrlProtocol: server, argument, returned string
  race,   \* one post-search verification: the two indicator waits and the race over them
  ans,   \* one answer of the decision function on its way through the loop
  iter,   \* the counters of the main loop, one iteration after the other
  fin,   \* the browser, context and page of one Playwright campaign request and their closing
  job,   \* one request to the remote-agent handler: the browser job, its id, the stop
  logrun    \* two campaign requests that differ in the password only, and the log lines of each

snapVars == <<doc, snapshot, prevSnapshot>>
execVars == <<xAction, xPage, xTrace, xResult>>
loopVars == <<pc, currentStep, consecutiveFailures, automationSteps, faults,
              fallbackCalls, executeCalls, response>>
reqVars == <<rqHandler, rqBody, rqStarted, rqResponse>>
runVars == <<runPc, runStep, files, uploaded>>
pollVars == <<pollImpl, runStatus, polls, tick, pollResult>>
sideVars == <<reqVars, runVars, pollVars, cycle, gx, shut, urlCall, race, ans, iter, fin, job, logrun>>
vars == <<snapVars, execVars, loopVars, sideVars>>

\* JavaScript's undefined / null, for string-valued slots
Undef == "<undefined>"
Null == "<null>"

\* F applied to the value of v, v evaluated once
Bind(v, F(_)) == CHOOSE r \in {F(x) : x \in {v}} : TRUE

(***************************************************************************)
(* Bounds                                                                  *)
(***************************************************************************)
MaxNodes == 3   \* free nodes of a document besides body and the wrapper chain
MaxWrap == 20   \* longest chain of wrapper elements below body
MaxDeepNodes == 2  \* free nodes of a document that has a wrapper chain

(***************************************************************************)
(* Documents: body (node 0), a chain of wrapper elements 1..wrap below it, *)
(* and n free nodes hanging below the last wrapper, numbered in document   *)
(* (depth-first, pre-order) order.                                         *)
(***************************************************************************)
MaxDepth == 20  \* if (depth < 20)

Elem(tag, id, attrs, w, h, vis, disp, op, onclick) ==
  [nodeType |-> "ELEMENT", tagName |-> tag, id |-> id, attrs |-> attrs,
   offsetWidth |-> w, offsetHeight |-> h, visibility |-> vis,
   display |-> disp, opacity |-> op, onclick |-> onclick]

TextNode(chars) == [nodeType |-> "TEXT", id |-> Undef, textContent |-> chars]

NoAttrs == [x \in {} |-> ""]

BodyT == Elem("BODY", "", NoAttrs, 800, 600, "visible", "block", "1", FALSE)
WrapT == Elem("DIV", "", NoAttrs, 800, 600, "visible", "block", "1", FALSE)

DivT == Elem("DIV", "", NoAttrs, 100, 20, "visible", "block", "1", FALSE)
ButtonT == Elem("BUTTON", "", NoAttrs, 100, 20, "visible", "block", "1", FALSE)
HiddenButtonT == Elem("BUTTON", "", NoAttrs, 0, 0, "visible", "none", "1", FALSE)
RoleDivT == Elem("DIV", "", [role |-> "checkbox"], 100, 20, "visible", "block", "1", FALSE)
ScriptT == Elem("SCRIPT", "", NoAttrs, 0, 0, "visible", "none", "1", FALSE)
OverlayT == Elem("DIV", "playwright-highlight-container", NoAttrs, 100, 20,
                 "visible", "block", "1", FALSE)
WordT == TextNode(<<" ", "o", "k">>)
BlankT == TextNode(<<" ", " ">>)

Templates == {DivT, ButtonT, HiddenButtonT, ScriptT, OverlayT, WordT, BlankT}

\* what a page script swaps into a node between two snapshots
SwapTemplates == {ButtonT}

RECURSIVE OnPath(_, _, _)
\* a is k or an ancestor of k (0 is the attach point, ancestor of all)
OnPath(par, k, a) ==
  IF a = k THEN TRUE
  ELSE IF k = 0 THEN FALSE
  ELSE OnPath(par, par[k], a)

WellFormedDoc(d) ==
  /\ \A k \in 1..d.n : d.parent[k] < k
  \* pre-order numbering: the parent of k lies on the path to k-1
  /\ \A k \in 2..d.n : OnPath(d.parent, k - 1, d.parent[k])
  \* only elements have child nodes
  /\ \A k \in 1..d.n : d.parent[k] # 0 => d.tmpl[d.parent[k]].nodeType = "ELEMENT"

Wraps == {0, MaxDepth - 1, MaxWrap}

DocsOfSize(n) ==
  {d \in [hasBody : {TRUE}, bodyId : {""}, wrap : IF n <= MaxDeepNodes THEN Wraps ELSE {0}, n : {n},
          parent : [1..n -> 0..(MaxNodes - 1)], tmpl : [1..n -> Templates]] :
     WellFormedDoc(d)}

NoBodyDoc == [hasBody |-> FALSE, bodyId |-> "", wrap |-> 0, n |-> 0,
              parent |-> [k \in 1..0 |-> 0], tmpl |-> [k \in 1..0 |-> DivT]]

Docs == {NoBodyDoc} \cup UNION {DocsOfSize(n) : n \in 0..MaxNodes}

NodeTmpl(d, node) ==
  IF node = 0 THEN [BodyT EXCEPT !.id = d.bodyId]
  ELSE IF node <= d.wrap THEN WrapT
  ELSE d.tmpl[node - d.wrap]

\* node.childNodes, in document order
ChildNodes(d, node) ==
  IF node < d.wrap THEN <<node + 1>>
  ELSE LET j == node - d.wrap
           ks == SelectSeq([k \in 1..d.n |-> k], LAMBDA k : d.parent[k] = j)
       IN [i \in 1..Len(ks) |-> d.wrap + ks[i]]

\* node.parentElement
ParentNode(d, node) ==
  IF node <= d.wrap THEN node - 1
  ELSE d.wrap + d.parent[node - d.wrap]

\* depth of a node below body (body = 0)
RECURSIVE DepthOf(_, _)
DepthOf(d, node) == IF node = 0 THEN 0 ELSE 1 + DepthOf(d, ParentNode(d, node))

AllNodes(d) == IF d.hasBody THEN 0..(d.wrap + d.n) ELSE {}

(***************************************************************************)
(* String helpers of the snapshot builder                                  *)
(***************************************************************************)
LowerTable == [BODY |-> "body", DIV |-> "div", BUTTON |-> "button",
               SCRIPT |-> "script", STYLE |-> "style", NOSCRIPT |-> "noscript",
               INPUT |-> "input", A |-> "a"]

ToLowerCase(s) == IF s \in DOMAIN LowerTable THEN LowerTable[s] ELSE s

IsSpace(c) == c \in {" ", "\t", "\n"}

RECURSIVE TrimStart(_)
TrimStart(cs) ==
  IF cs = <<>> THEN cs
  ELSE IF IsSpace(Head(cs)) THEN TrimStart(Tail(cs)) ELSE cs

RECURSIVE TrimEnd(_)
TrimEnd(cs) ==
  IF cs = <<>> THEN cs
  ELSE IF IsSpace(cs[Len(cs)]) THEN TrimEnd(SubSeq(cs, 1, Len(cs) - 1)) ELSE cs

Trim(cs) == TrimEnd(TrimStart(cs))

GetAttribute(element, name) ==
  IF name \in DOMAIN element.attrs THEN element.attrs[name] ELSE Null

(***************************************************************************)
(* buildAdvancedDomSnapshot                                                *)
(***************************************************************************)
Handle(kind, n) == [kind |-> kind, n |-> n]
NoHandle == Handle("none", 0)

Put(m, k, v) == (k :> v) @@ m

EmptyMap == [x \in {} |-> 0]

getElementAttributes(element) == element.attrs

\* faulty variant: opacity is not looked at
isElementVisibleDespiteOpacity(element) ==
  /\ element.offsetWidth > 0
  /\ element.offsetHeight > 0
  /\ element.visibility # "hidden"
  /\ element.display # "none"

isElementVisible(element) ==
  /\ element.offsetWidth > 0
  /\ element.offsetHeight > 0
  /\ element.visibility # "hidden"
  /\ element.display # "none"
  /\ element.opacity # "0"

InteractiveTags == {"a", "button", "input", "select", "textarea", "details", "summary"}

isInteractiveElement(element) ==
  IF element.nodeType # "ELEMENT" THEN FALSE
  ELSE IF ToLowerCase(element.tagName) \in InteractiveTags THEN TRUE
  ELSE IF GetAttribute(element, "role") \in {"button", "link", "checkbox", "menuitem"} THEN TRUE
  ELSE IF element.onclick \/ GetAttribute(element, "onclick") \notin {Null, ""} THEN TRUE
  ELSE IF GetAttribute(element, "tabindex") # Null /\ GetAttribute(element, "tabindex") # "-1" THEN TRUE
  ELSE FALSE

HighlightContainerId == "playwright-highlight-container"

\* state of the closure: ID.current, highlightIndex, DOM_HASH_MAP, rootId;
\* nodeOf remembers which document node each handle was issued for
InitBuild == [ID |-> 0, highlightIndex |-> 0, map |-> EmptyMap, rootId |-> NoHandle,
              nodeOf |-> EmptyMap]

\* faulty variant: the handle of a text node is returned without writing its record
StoreSkipsText(st, id, rec, d, node) ==
  [st EXCEPT !.ID = @ + 1,
             !.map = IF id.kind = "text" THEN @ ELSE Put(@, id, rec),
             !.nodeOf = Put(@, id, [node |-> node, tmpl |-> NodeTmpl(d, node)])]

\* faulty variant: a text node does not advance the counter
StoreKeepsCounterForText(st, id, rec, d, node) ==
  [st EXCEPT !.ID = IF id.kind = "text" THEN @ ELSE @ + 1,
             !.map = Put(@, id, rec),
             !.nodeOf = Put(@, id, [node |-> node, tmpl |-> NodeTmpl(d, node)])]

\* const id = `kind_${ID.current++}`; DOM_HASH_MAP[id] = record
Store(st, id, rec, d, node) ==
  [st EXCEPT !.ID = @ + 1,
             !.map = Put(@, id, rec),
             !.nodeOf = Put(@, id, [node |-> node, tmpl |-> NodeTmpl(d, node)])]

\* faulty variant: the counter is left where it was
KeepHighlightIndex(st, interactive) == st

\* nodeData.highlightIndex = highlightIndex++
TakeHighlightIndex(st, interactive) ==
  IF interactive THEN [st EXCEPT !.highlightIndex = @ + 1] ELSE st

\* faulty variant: one level more is descended
KidsToVisitOneDeeper(d, node, depth) ==
  IF depth <= MaxDepth THEN ChildNodes(d, node) ELSE <<>>

\* if (depth < 20) { for (const child of node.childNodes) ... }
KidsToVisit(d, node, depth) ==
  IF depth < MaxDepth THEN ChildNodes(d, node) ELSE <<>>

\* Entry of buildDomTree(node, depth) up to the point where it either returns
\* (text node, skipped node) or starts the loop over node.childNodes.
\* Result: [leaf |-> TRUE, id, st] or [leaf |-> FALSE, frame, st].
enterNode(d, node, depth, st) ==
  LET t == NodeTmpl(d, node)
      tagName == ToLowerCase(t.tagName)
      visible == isElementVisible(t)
      interactive == visible /\ isInteractiveElement(t)
      textRec == [type |-> "TEXT_NODE", text |-> Trim(t.textContent),
                  parentElement |-> ToLowerCase(NodeTmpl(d, ParentNode(d, node)).tagName)]
      \* isInteractive is set only on visible elements, highlightIndex only on
      \* interactive ones
      nodeData ==
        IF ~visible
          THEN [tagName |-> tagName, attributes |-> getElementAttributes(t),
                children |-> <<>>, isVisible |-> FALSE]
        ELSE IF ~interactive
          THEN [tagName |-> tagName, attributes |-> getElementAttributes(t),
                children |-> <<>>, isVisible |-> TRUE, isInteractive |-> FALSE]
        ELSE [tagName |-> tagName, attributes |-> getElementAttributes(t),
              children |-> <<>>, isVisible |-> TRUE, isInteractive |-> TRUE,
              highlightIndex |-> st.highlightIndex]
  IN
  CASE t.id = HighlightContainerId -> [leaf |-> TRUE, id |-> NoHandle, st |-> st]
    [] t.id # HighlightContainerId /\ t.nodeType # "ELEMENT" ->
         IF t.nodeType = "TEXT" /\ Trim(t.textContent) # <<>>
           THEN [leaf |-> TRUE, id |-> Handle("text", st.ID),
                 st |-> Store(st, Handle("text", st.ID), textRec, d, node)]
           ELSE [leaf |-> TRUE, id |-> NoHandle, st |-> st]
    [] t.id # HighlightContainerId /\ t.nodeType = "ELEMENT"
         /\ tagName \in {"script", "style", "noscript"} ->
         [leaf |-> TRUE, id |-> NoHandle, st |-> st]
    [] OTHER ->
         [leaf |-> FALSE,
          frame |-> [node |-> node, depth |-> depth, nodeData |-> nodeData,
                     kids |-> KidsToVisit(d, node, depth),
                     i |-> 1],
          st |-> TakeHighlightIndex(st, interactive)]

\* End of buildDomTree for an element: store nodeData, set rootId for body.
leaveNode(d, f, st) ==
  LET id == Handle("element", st.ID)
      st2 == Store(st, id, f.nodeData, d, f.node)
  IN [id |-> id,
      st |-> IF f.nodeData.tagName = "body" THEN [st2 EXCEPT !.rootId = id] ELSE st2]

\* One step of the recursion of buildDomTree, with its call stack made
\* explicit: c.stack holds the activations (innermost last), c.st the closure
\* state, c.ret the value returned by the call that completed last.
stepBuild(d, c) ==
  LET top == Len(c.stack)
      f == c.stack[top]
  IN
  IF f.i > Len(f.kids)
    THEN \* loop over childNodes finished: store and return to the caller
      Bind(leaveNode(d, f, c.st), LAMBDA r :
        [stack |-> IF top = 1 \/ r.id = NoHandle THEN SubSeq(c.stack, 1, top - 1)
                   ELSE [SubSeq(c.stack, 1, top - 1)
                           EXCEPT ![top - 1].nodeData.children = Append(@, r.id)],
         st |-> r.st, ret |-> r.id])
    ELSE \* childId = buildDomTree(child, depth + 1); if (childId) push
      Bind(enterNode(d, f.kids[f.i], f.depth + 1, c.st), LAMBDA e :
        IF e.leaf
          THEN [stack |-> IF e.id = NoHandle THEN [c.stack EXCEPT ![top].i = @ + 1]
                          ELSE [c.stack EXCEPT ![top].i = @ + 1,
                                               ![top].nodeData.children = Append(@, e.id)],
                st |-> e.st, ret |-> e.id]
          ELSE [stack |-> Append([c.stack EXCEPT ![top].i = @ + 1], e.frame),
                st |-> e.st, ret |-> c.ret])

RECURSIVE runBuild(_, _)
runBuild(d, c) ==
  IF c.stack = <<>> THEN c
  ELSE Bind(stepBuild(d, c), LAMBDA n : runBuild(d, n))

buildDomTree(d, node, depth, st) ==
  Bind(enterNode(d, node, depth, st), LAMBDA e :
    IF e.leaf THEN [id |-> e.id, st |-> e.st]
    ELSE Bind(runBuild(d, [stack |-> <<e.frame>>, st |-> e.st, ret |-> NoHandle]),
              LAMBDA c : [id |-> c.ret, st |-> c.st]))

DefaultArgs == [doHighlightElements |-> FALSE, focusHighlightIndex |-> -1,
                viewportExpansion |-> 0, debugMode |-> FALSE]

\* faulty variant: the branch for a missing body is absent, rootId stays null
buildAdvancedDomSnapshotNoFallback(d, args) ==
  IF d.hasBody
    THEN Bind(buildDomTree(d, 0, 0, InitBuild), LAMBDA b :
           [rootId |-> b.id, map |-> b.st.map, nodeOf |-> b.st.nodeOf])
    ELSE [rootId |-> NoHandle, map |-> EmptyMap, nodeOf |-> EmptyMap]

\* if (debugMode) PERF_METRICS = {...}: the three counters as created; no
\* statement of the builder writes to them afterwards
InitPerfMetrics ==
  [nodeMetrics |-> [totalNodes |-> 0, processedNodes |-> 0, skippedNodes |-> 0]]

buildAdvancedDomSnapshot(d, args) ==
  Bind(IF d.hasBody
         THEN \* rootId = buildDomTree(document.body)
           Bind(buildDomTree(d, 0, 0, InitBuild), LAMBDA b :
             [rootId |-> b.id, map |-> b.st.map, nodeOf |-> b.st.nodeOf])
         ELSE [rootId |-> Handle("root", 0),
               map |-> Put(EmptyMap, Handle("root", 0), [error |-> "No document.body available"]),
               nodeOf |-> EmptyMap],
       LAMBDA r :
         \* return debugMode ? { rootId, map, perfMetrics } : { rootId, map }
         IF args.debugMode
           THEN [rootId |-> r.rootId, map |-> r.map, nodeOf |-> r.nodeOf,
                 perfMetrics |-> InitPerfMetrics]
           ELSE r)

\* snapshot.map[handle]: property lookup, undefined when the key is absent
Resolve(snap, h) == IF h \in DOMAIN snap.map THEN snap.map[h] ELSE [undefined |-> TRUE]

\* the variable before any call of the builder has returned
NoSnapshot == [rootId |-> Handle("unset", 0), map |-> EmptyMap, nodeOf |-> EmptyMap]

(***************************************************************************)
(* Values the variables of the other components rest at                    *)
(***************************************************************************)
NoAction == [none |-> TRUE]
NoPage == [none |-> TRUE]
NoResult == [kind |-> "idle"]

SnapIdle == doc = NoBodyDoc /\ snapshot = NoSnapshot /\ prevSnapshot = NoSnapshot
ExecIdle == xAction = NoAction /\ xPage = NoPage /\ xTrace = <<>> /\ xResult = NoResult
LoopIdle ==
  /\ pc = "idle" /\ currentStep = 0 /\ consecutiveFailures = 0
  /\ automationSteps = <<>> /\ faults = 0 /\ fallbackCalls = 0 /\ executeCalls = 0
  /\ response = NoResult
ReqIdle == rqHandler = "idle" /\ rqBody = NoAction /\ rqStarted = <<>> /\ rqResponse = NoResult
RunIdle == runPc = <<>> /\ runStep = <<>> /\ files = <<>> /\ uploaded = <<>>
PollIdle ==
  /\ pollImpl = "idle" /\ runStatus = "idle" /\ polls = 0 /\ tick = FALSE
  /\ pollResult = "idle"
CycleIdle == cycle = [pc |-> "idle"]
GxIdle == gx = [pc |-> "idle"]
ShutIdle == shut = [pc |-> "idle"]
UrlIdle == urlCall = [pc |-> "idle"]
RaceIdle == race = [pc |-> "idle"]
AnswerIdle == ans = [pc |-> "idle"]
IterIdle == iter = [pc |-> "idle"]
FinIdle == fin = [pc |-> "idle"]
JobIdle == job = [pc |-> "idle"]
LogIdle == logrun = [pc |-> "idle"]
SideIdle == ReqIdle /\ RunIdle /\ PollIdle /\ CycleIdle /\ GxIdle /\ ShutIdle /\ UrlIdle /\ RaceIdle /\ AnswerIdle /\ IterIdle /\ FinIdle /\ JobIdle /\ LogIdle

\* every component except the named one is idle
IdleExcept(g) ==
  /\ SnapIdle /\ ExecIdle /\ LoopIdle
  /\ IF g = "req" THEN TRUE ELSE ReqIdle
  /\ IF g = "run" THEN TRUE ELSE RunIdle
  /\ IF g = "poll" THEN TRUE ELSE PollIdle
  /\ IF g = "cycle" THEN TRUE ELSE CycleIdle
  /\ IF g = "log" THEN TRUE ELSE LogIdle
  /\ IF g = "job" THEN TRUE ELSE JobIdle
  /\ IF g = "fin" THEN TRUE ELSE FinIdle
  /\ IF g = "iter" THEN TRUE ELSE IterIdle
  /\ IF g = "answer" THEN TRUE ELSE AnswerIdle
  /\ IF g = "race" THEN TRUE ELSE RaceIdle
  /\ IF g = "url" THEN TRUE ELSE UrlIdle
  /\ IF g = "shut" THEN TRUE ELSE ShutIdle
  /\ IF g = "gx" THEN TRUE ELSE GxIdle

(***************************************************************************)
(* SpecSnap: a page holds a document; the tool snapshots it, page scripts  *)
(* replace nodes, the tool snapshots again.                                *)
(***************************************************************************)
InitSnap ==
  /\ doc \in Docs
  /\ snapshot = NoSnapshot
  /\ prevSnapshot = NoSnapshot
  /\ ExecIdle /\ LoopIdle /\ SideIdle

\* page.evaluate(buildAdvancedDomSnapshot): a fresh closure per call
TakeSnapshot ==
  /\ \E s \in {buildAdvancedDomSnapshot(doc, DefaultArgs)} :
        /\ snapshot # s
        /\ snapshot' = s
  /\ prevSnapshot' = snapshot
  /\ UNCHANGED <<doc, execVars, loopVars, sideVars>>

\* the live page replaces one node after it was snapshotted
MutateDom ==
  /\ doc.hasBody
  /\ snapshot = buildAdvancedDomSnapshot(doc, DefaultArgs)
  /\ \E k \in 1..doc.n, t \in SwapTemplates :
        /\ doc.tmpl[k] # t
        /\ doc' = [doc EXCEPT !.tmpl[k] = t]
  /\ UNCHANGED <<snapshot, prevSnapshot, execVars, loopVars, sideVars>>

NextSnap == TakeSnapshot \/ MutateDom

SpecSnap == InitSnap /\ [][NextSnap]_vars

(***************************************************************************)
(* SpecElem: the snapshot of a body holding one element, over the          *)
(* element's tag, attributes, click handler, box and computed style        *)
(***************************************************************************)
AttrSets == {NoAttrs, [role |-> "checkbox"], [role |-> "button"], [tabindex |-> "0"],
             [tabindex |-> "-1"], [onclick |-> "go()"]}

ElementTemplates ==
  {Elem(tag, "", attrs, w, h, vis, disp, op, onclick) :
     tag \in {"DIV", "BUTTON", "A", "INPUT"}, attrs \in AttrSets,
     w \in {0, 100}, h \in {0, 20}, vis \in {"visible", "hidden"},
     disp \in {"block", "none"}, op \in {"1", "0.5", "0"}, onclick \in BOOLEAN}

ElementDocs ==
  {[hasBody |-> TRUE, bodyId |-> "", wrap |-> 0, n |-> 1, parent |-> <<0>>, tmpl |-> <<t>>] :
     t \in ElementTemplates}

InitElem ==
  /\ doc \in ElementDocs
  /\ snapshot = NoSnapshot
  /\ prevSnapshot = NoSnapshot
  /\ ExecIdle /\ LoopIdle /\ SideIdle

NextElem == TakeSnapshot

SpecElem == InitElem /\ [][NextElem]_vars

(***************************************************************************)
(* SpecBody: snapshots of small documents over the id the page gives its   *)
(* body element                                                            *)
(***************************************************************************)
BodyIds == {"", "app", HighlightContainerId}

BodyDocs ==
  {[d EXCEPT !.bodyId = id] :
     d \in {e \in Docs : e.hasBody /\ e.wrap = 0 /\ e.n <= 2}, id \in BodyIds}

InitBody ==
  /\ doc \in BodyDocs
  /\ snapshot = NoSnapshot
  /\ prevSnapshot = NoSnapshot
  /\ ExecIdle /\ LoopIdle /\ SideIdle

NextBody == TakeSnapshot \/ MutateDom

SpecBody == InitBody /\ [][NextBody]_vars

(***************************************************************************)
(* SpecMetrics: snapshots taken with and without debugMode                 *)
(***************************************************************************)
DebugArgs == [DefaultArgs EXCEPT !.debugMode = TRUE]

MetricsDocs == {d \in Docs : d.n <= MaxDeepNodes}

InitMetrics ==
  /\ doc \in MetricsDocs
  /\ snapshot = NoSnapshot
  /\ prevSnapshot = NoSnapshot
  /\ ExecIdle /\ LoopIdle /\ SideIdle

\* page.evaluate(buildAdvancedDomSnapshot, { debugMode: true })
TakeDebugSnapshot ==
  /\ \E s \in {buildAdvancedDomSnapshot(doc, DebugArgs)} :
        /\ snapshot # s
        /\ snapshot' = s
  /\ prevSnapshot' = snapshot
  /\ UNCHANGED <<doc, execVars, loopVars, sideVars>>

NextMetrics == TakeDebugSnapshot \/ TakeSnapshot

SpecMetrics == InitMetrics /\ [][NextMetrics]_vars

(***************************************************************************)
(* executeAction: actions, pages, page operations                          *)
(***************************************************************************)
MaxOpIndex == 20  \* page operations of one call that the failure oracle covers

HeaderSel == ".search-tab-filters-list-item-header"
SearchSel == "input[placeholder=\"Search\"]"
BoxSel == ".list-item-checkbox"
ButtonSel == "button"
SaveToListSel == "text=\"Save to List\""
NoResultsSel == ".no-results-found"

ValidKinds == {"click", "fill", "press", "wait"}

\* selector.includes('checkbox'), tabulated over the selectors in use
IncludesCheckbox(sel) ==
  sel \in {BoxSel, ".search-businesses-header-checkbox", ".checkbox-square",
           "input[type=\"checkbox\"]"}

\* the checkbox patterns, in the order the code tries them
CheckboxSelectors ==
  <<".search-businesses-header-checkbox", ".checkbox-square", ".list-item-checkbox">>

\* JavaScript truthiness of a string-or-undefined slot
Truthy(v) == v \notin {Undef, Null, ""}

\* a || b
OrElse(a, b) == IF Truthy(a) THEN a ELSE b

\* the object the decision function produced; absent properties are Undef.
\* inputFields is Undef, an array of {placeholder, value}, or NotAnArray.
NoFields == [kind |-> "undefined"]
NotAnArray == [kind |-> "other"]
FieldArray(items) == [kind |-> "array", items |-> items]
\* String(undefined), what parseInt sees for an absent duration
NoDuration == <<"undefined">>
BaseAction ==
  [action |-> Undef, selector |-> Undef, value |-> Undef, key |-> Undef,
   duration |-> NoDuration, searchText |-> Undef, inputFields |-> NoFields,
   search_query |-> Undef, type |-> Undef]
NullAction == [null |-> TRUE]
IsNullAction(a) == "null" \in DOMAIN a

Act(kind, sel) == [BaseAction EXCEPT !.action = kind, !.selector = sel]

FieldsWithSearch == FieldArray(<<[placeholder |-> "Email", value |-> "a@b.c"],
                                 [placeholder |-> "Search", value |-> "sushi"]>>)
FieldsWithoutSearch == FieldArray(<<[placeholder |-> "Email", value |-> "a@b.c"]>>)

Durations == {NoDuration, <<"2", "0", "0", "0">>, <<"0">>, <<"x">>, <<"1", "5", "x">>}

SearchActions ==
  {[Act("press", SearchSel) EXCEPT !.key = k] : k \in {"Enter", "Tab", Undef}}
  \cup {[Act("fill", SearchSel) EXCEPT !.value = v] : v \in {"tacos", "", Undef}}
  \cup {Act("click", SearchSel), Act("wait", SearchSel)}

GenericActions ==
  {Act(k, sel) : k \in {"click", "press"}, sel \in {HeaderSel, ButtonSel}}
  \cup {[Act("fill", ButtonSel) EXCEPT !.value = v] : v \in {"tacos", Undef}}

WaitActions ==
  {[Act("wait", sel) EXCEPT !.duration = dur] : sel \in {Undef, ButtonSel}, dur \in Durations}

MalformedActions ==
  {Act(k, sel) : k \in {"hover", Undef}, sel \in {Undef, "", ButtonSel, SearchSel, BoxSel}}
  \cup {Act(k, sel) : k \in {"click", "fill", "press"}, sel \in {Undef, ""}}
  \cup {[Act("hover", Undef) EXCEPT !.searchText = "tacos"],
        [Act("search", ButtonSel) EXCEPT !.search_query = "ramen"],
        [Act(Undef, Undef) EXCEPT !.inputFields = FieldsWithSearch],
        [Act(Undef, Undef) EXCEPT !.inputFields = FieldsWithoutSearch],
        [Act(Undef, Undef) EXCEPT !.inputFields = NotAnArray],
        [Act("hover", Undef) EXCEPT !.searchText = "tacos", !.inputFields = NotAnArray],
        [Act("hover", Undef) EXCEPT !.type = "checkbox"]}

CheckboxActions ==
  {Act("click", BoxSel), Act("fill", BoxSel),
   [Act("click", ButtonSel) EXCEPT !.type = "checkbox"],
   [Act("click", SearchSel) EXCEPT !.type = "checkbox"],
   [Act("fill", SearchSel) EXCEPT !.type = "checkbox", !.value = "tacos"]}

Actions == {NullAction, BaseAction} \cup SearchActions \cup GenericActions
             \cup WaitActions \cup MalformedActions \cup CheckboxActions

IsCheckboxLike(a) == IncludesCheckbox(a.selector) \/ a.type = "checkbox"

\* The page: the search section (its input is visible iff expanded; a click
\* on the header toggles it), the text in the search input, whether other
\* targets are visible, which checkbox patterns exist, the number of Enter
\* presses the search has received and after how many of them a results or
\* no-results indicator shows up (Never: none does).
MaxEnters == 4  \* Enter presses: one call dispatches fewer than this
Never == MaxEnters
BasePage == [expanded |-> FALSE, inputValue |-> "", targetVisible |-> TRUE,
             boxes |-> {}, enters |-> 0, resultsAfter |-> 1]

Pages ==
  {[BasePage EXCEPT !.expanded = e, !.targetVisible = t] : e \in BOOLEAN, t \in BOOLEAN}
  \cup {[BasePage EXCEPT !.boxes = b] : b \in SUBSET (1..Len(CheckboxSelectors))}
  \cup {[BasePage EXCEPT !.expanded = e, !.resultsAfter = r] : e \in BOOLEAN, r \in {2, Never}}

PageFits(a, p) ==
  /\ p.boxes # {} => (~IsNullAction(a) /\ IsCheckboxLike(a))
  /\ p.resultsAfter # 1 => (~IsNullAction(a) /\ a.action = "press" /\ a.selector = SearchSel)

IsVisibleOn(p, sel) == IF sel = SearchSel THEN p.expanded ELSE p.targetVisible

\* error.message, and error.message.includes('hidden')
HiddenMsg == "locator resolved to hidden element"
OtherMsg == "Timeout 20000ms exceeded"
NoCheckboxMsg == "No matching checkbox found"
SearchFailedMsg == "Search failed to show results after retry"
TypeErrorMsg == "TypeError"
IncludesHidden(msg) == msg = HiddenMsg
ErrorClasses == {HiddenMsg, OtherMsg}

\* parseInt over the characters of a value; NaN when no digits lead
DigitValue == [c \in {"0", "1", "2", "3", "4", "5", "6", "7", "8", "9"} |->
                 CASE c = "0" -> 0 [] c = "1" -> 1 [] c = "2" -> 2 [] c = "3" -> 3
                   [] c = "4" -> 4 [] c = "5" -> 5 [] c = "6" -> 6 [] c = "7" -> 7
                   [] c = "8" -> 8 [] c = "9" -> 9]
NaN == [nan |-> TRUE]

RECURSIVE ParseDigits(_, _, _)
ParseDigits(cs, acc, seen) ==
  IF cs = <<>> \/ Head(cs) \notin DOMAIN DigitValue
    THEN IF seen THEN [nan |-> FALSE, v |-> acc] ELSE NaN
    ELSE ParseDigits(Tail(cs), acc * 10 + DigitValue[Head(cs)], TRUE)

parseInt(x) ==
  LET cs == TrimStart(x)
  IN IF cs # <<>> /\ Head(cs) = "-"
       THEN LET r == ParseDigits(Tail(cs), 0, FALSE)
            IN IF r.nan THEN NaN ELSE [nan |-> FALSE, v |-> 0 - r.v]
       ELSE ParseDigits(cs, 0, FALSE)

\* parseInt(action.duration) || 2000
WaitDuration(a) ==
  LET r == parseInt(a.duration) IN IF r.nan \/ r.v = 0 THEN 2000 ELSE r.v

(***************************************************************************)
(* Page operations.  A run state x carries the page, the operations issued *)
(* so far, the pending exception (NoExc when none), the value the last     *)
(* operation produced, and the value returned (NoRet while running).       *)
(* Failing is the set of operation ordinals the environment makes throw,   *)
(* cls the message such an error carries.                                  *)
(***************************************************************************)
NoExc == Undef
NoRet == [running |-> TRUE]
Success == [success |-> TRUE]
Failure(msg) == [success |-> FALSE, error |-> msg]

Op(kind, sel, arg) == [op |-> kind, sel |-> sel, arg |-> arg]

\* caught: the error the outer catch block received, if it ran
StartRun(p) == [page |-> p, trace |-> <<>>, exc |-> NoExc, val |-> FALSE, ret |-> NoRet,
                caught |-> NoExc]

\* what a successful operation does to the page
Effect(p, o) ==
  CASE o.op = "click" /\ o.sel = HeaderSel -> [p EXCEPT !.expanded = ~@]
    [] o.op = "fill" /\ o.sel = SearchSel -> [p EXCEPT !.inputValue = o.arg]
    [] o.op = "press" /\ o.sel = SearchSel /\ o.arg = "Enter" -> [p EXCEPT !.enters = @ + 1]
    [] OTHER -> p

\* operations that need their target visible
NeedsVisible(o) == o.op \in {"waitForSelector", "fill"}

\* the value an operation resolves to
ValueOf(p, o) ==
  CASE o.op = "isVisible" -> IsVisibleOn(p, o.sel)
    [] o.op = "$" -> \E i \in p.boxes : CheckboxSelectors[i] = o.sel
    [] OTHER -> TRUE

\* await page.<op>(...): appended to the trace, then it throws or takes effect
PageOp(x, o, Failing, cls) ==
  IF x.exc # NoExc \/ x.ret # NoRet THEN x
  ELSE IF (Len(x.trace) + 1) \in Failing \/ (NeedsVisible(o) /\ ~IsVisibleOn(x.page, o.sel))
    THEN [x EXCEPT !.trace = Append(@, [op |-> o.op, sel |-> o.sel, arg |-> o.arg, out |-> "throw"]),
                   !.exc = cls]
    ELSE [x EXCEPT !.trace = Append(@, [op |-> o.op, sel |-> o.sel, arg |-> o.arg,
                                        out |-> IF o.op \notin {"isVisible", "$"} THEN "ok"
                                                ELSE IF ValueOf(x.page, o) THEN "true"
                                                ELSE "false"]),
                   !.page = Effect(@, o),
                   !.val = ValueOf(x.page, o)]

RECURSIVE PageOps(_, _, _, _)
\* a straight-line sequence of awaited operations
PageOps(x, os, Failing, cls) ==
  IF os = <<>> \/ x.exc # NoExc \/ x.ret # NoRet THEN x
  ELSE Bind(PageOp(x, Head(os), Failing, cls),
            LAMBDA y : PageOps(y, Tail(os), Failing, cls))

\* await Promise.all([page.waitForLoadState('networkidle'), page.press(sel, 'Enter')]):
\* both are started, the await throws if either rejects
PressAndSettle(x, sel, Failing, cls) ==
  IF x.exc # NoExc \/ x.ret # NoRet THEN x
  ELSE Bind(PageOp(x, Op("waitForLoadState", "networkidle", 20000), Failing, cls), LAMBDA y :
       Bind(PageOp([y EXCEPT !.exc = NoExc], Op("press", sel, "Enter"), Failing, cls), LAMBDA z :
         IF y.exc # NoExc THEN [z EXCEPT !.exc = y.exc] ELSE z))

\* Promise.race of the two indicator waits, each mapped to true / false:
\* a wait that fails counts as false, nothing is thrown
VerifySearch(x, Failing) ==
  IF x.exc # NoExc \/ x.ret # NoRet THEN x
  ELSE LET seen == (Len(x.trace) + 1) \notin Failing /\ x.page.enters >= x.page.resultsAfter
       IN [x EXCEPT !.trace = Append(@, [op |-> "raceIndicators", sel |-> SaveToListSel,
                                         arg |-> NoResultsSel,
                                         out |-> IF seen THEN "true" ELSE "false"]),
                    !.val = seen]

Return(x, v) == IF x.exc # NoExc \/ x.ret # NoRet THEN x ELSE [x EXCEPT !.ret = v]
Throw(x, msg) == IF x.exc # NoExc \/ x.ret # NoRet THEN x ELSE [x EXCEPT !.exc = msg]
Running(x) == x.exc = NoExc /\ x.ret = NoRet

(***************************************************************************)
(* executeAction(page, action)                                             *)
(***************************************************************************)
\* action.inputFields?.find(f => f.placeholder === 'Search')?.value
RECURSIVE FindSearchValue(_)
FindSearchValue(items) ==
  IF items = <<>> THEN Undef
  ELSE IF Head(items).placeholder = "Search" THEN Head(items).value
  ELSE FindSearchValue(Tail(items))

\* faulty variant: a non-empty selector is kept when only the kind is unknown
NormalizeKeepsSelector(a) ==
  IF Truthy(a.selector)
    THEN [selector |-> a.selector,
          validAction |-> IF a.action \in ValidKinds THEN a.action ELSE "click",
          action |-> a, threw |-> FALSE]
    ELSE [selector |-> HeaderSel, validAction |-> "click", action |-> a, threw |-> FALSE]

\* "Force invalid formats to valid ones": the selector and kind the call acts
\* on and the action with its value rewritten; threw when .find is not callable
Normalize(a) ==
  IF Truthy(a.selector) /\ a.action \in ValidKinds
    THEN [selector |-> a.selector, validAction |-> a.action, action |-> a, threw |-> FALSE]
  ELSE IF Truthy(a.searchText) \/ a.inputFields.kind # "undefined" \/ Truthy(a.search_query)
    THEN IF ~Truthy(a.searchText) /\ a.inputFields.kind = "other"
      THEN [selector |-> SearchSel, validAction |-> "fill", action |-> a, threw |-> TRUE]
      ELSE [selector |-> SearchSel, validAction |-> "fill",
            action |-> [a EXCEPT !.value =
                          OrElse(a.searchText,
                            OrElse(IF a.inputFields.kind = "array"
                                     THEN FindSearchValue(a.inputFields.items) ELSE Undef,
                              OrElse(a.search_query, "pizza")))],
            threw |-> FALSE]
  ELSE [selector |-> HeaderSel, validAction |-> "click", action |-> a, threw |-> FALSE]

ExpandAndFocus(sel) ==
  <<Op("click", HeaderSel, "force"), Op("waitForTimeout", Undef, 1000),
    Op("waitForSelector", sel, "visible"), Op("click", sel, "force")>>

\* faulty variant: no second Enter when the indicators stay away
SearchPressEnterNoRetry(x, sel, Failing, cls) ==
  Bind(PageOps(x, ExpandAndFocus(sel) \o <<Op("waitForTimeout", Undef, 500)>>, Failing, cls),
       LAMBDA x1 :
  Bind(VerifySearch(PressAndSettle(x1, sel, Failing, cls), Failing), LAMBDA x2 :
    IF ~Running(x2) \/ x2.val THEN Return(x2, Success)
    ELSE Throw(x2, SearchFailedMsg)))

\* press Enter on the search box: "treat it as a complete search operation"
SearchPressEnter(x, sel, Failing, cls) ==
  Bind(PageOps(x, ExpandAndFocus(sel) \o <<Op("waitForTimeout", Undef, 500)>>, Failing, cls),
       LAMBDA x1 :
  Bind(VerifySearch(PressAndSettle(x1, sel, Failing, cls), Failing), LAMBDA x2 :
    IF ~Running(x2) \/ x2.val THEN Return(x2, Success)
    ELSE \* "Retry the search once"
      Bind(PageOps(x2, <<Op("click", sel, "force")>>, Failing, cls), LAMBDA x3 :
      Bind(VerifySearch(PressAndSettle(x3, sel, Failing, cls), Failing), LAMBDA x4 :
        IF ~Running(x4) \/ x4.val THEN Return(x4, Success)
        ELSE Throw(x4, SearchFailedMsg)))))

\* fill on the search box: "ensure input stays visible"
SearchFill(x, sel, a, Failing, cls) ==
  Bind(PageOps(x, ExpandAndFocus(sel) \o
                  <<Op("fill", sel, OrElse(a.value, "pizza")),
                    Op("waitForTimeout", Undef, 500),
                    Op("isVisible", sel, Undef)>>, Failing, cls), LAMBDA x1 :
    IF ~Running(x1) \/ x1.val THEN Return(x1, Success)
    ELSE Return(PageOps(x1, <<Op("click", HeaderSel, "force"),
                              Op("waitForTimeout", Undef, 500),
                              Op("click", sel, "force")>>, Failing, cls), Success))

RECURSIVE TryCheckboxes(_, _, _, _)
\* faulty variant: the first pattern is clicked whether or not it resolved
TryCheckboxesClicksFirst(x, i, Failing, cls) ==
  IF ~Running(x) THEN x
  ELSE Bind(PageOp(x, Op("$", CheckboxSelectors[i], Undef), Failing, cls), LAMBDA x1 :
         Return(PageOps(x1, <<Op("elementClick", CheckboxSelectors[i], "force"),
                              Op("waitForTimeout", Undef, 500)>>, Failing, cls), Success))

\* for (const selector of selectors) { checkbox = await page.$(selector); ... }
TryCheckboxes(x, i, Failing, cls) ==
  IF ~Running(x) THEN x
  ELSE IF i > Len(CheckboxSelectors) THEN Throw(x, NoCheckboxMsg)
  ELSE Bind(PageOp(x, Op("$", CheckboxSelectors[i], Undef), Failing, cls), LAMBDA x1 :
         IF ~Running(x1) THEN x1
         ELSE IF x1.val
           THEN Return(PageOps(x1, <<Op("elementClick", CheckboxSelectors[i], "force"),
                                     Op("waitForTimeout", Undef, 500)>>, Failing, cls), Success)
           ELSE TryCheckboxes(x1, i + 1, Failing, cls))

\* the checkbox block with its own catch: every error becomes a failure value
CheckboxBlock(x, Failing, cls) ==
  Bind(TryCheckboxes(x, 1, Failing, cls), LAMBDA x1 :
    IF x1.exc # NoExc THEN [x1 EXCEPT !.exc = NoExc, !.ret = Failure(x1.exc)] ELSE x1)

\* "Handle non-search actions normally"
GenericBlock(x, sel, kind, a, Failing, cls) ==
  Bind(PageOp(x, Op("waitForSelector", sel, "visible"), Failing, cls), LAMBDA x1 :
    CASE kind = "click" ->
           Return(PageOps(x1, <<Op("click", sel, "force"),
                                Op("waitForTimeout", Undef, 1000)>>, Failing, cls), Success)
      [] kind = "fill" ->
           Return(PageOps(x1, <<Op("fill", sel, OrElse(a.value, "")),
                                Op("waitForTimeout", Undef, 500)>>, Failing, cls), Success)
      [] kind = "press" ->
           Return(PageOps(x1, <<Op("press", sel, OrElse(a.key, "Enter")),
                                Op("waitForLoadState", "networkidle", 20000)>>, Failing, cls),
                  Success)
      [] kind = "wait" ->
           Return(PageOps(x1, <<Op("waitForTimeout", Undef, WaitDuration(a))>>, Failing, cls),
                  Success)
      [] OTHER -> Return(x1, Failure("Unknown action")))

\* the body of the try block
TryBlock(x, n, Failing, cls) ==
  IF n.selector = SearchSel /\ n.validAction = "press" /\ n.action.key = "Enter"
    THEN SearchPressEnter(x, n.selector, Failing, cls)
  ELSE IF n.selector = SearchSel /\ n.validAction = "fill"
    THEN SearchFill(x, n.selector, n.action, Failing, cls)
  ELSE IF IsCheckboxLike(n.action)
    THEN CheckboxBlock(x, Failing, cls)
  ELSE GenericBlock(x, n.selector, n.validAction, n.action, Failing, cls)

\* "Special retry for search input issues", with its own catch
SearchRetry(x, sel, kind, a, Failing, cls) ==
  Bind(PageOps(x, <<Op("click", HeaderSel, "force"), Op("waitForTimeout", Undef, 1000),
                    Op("click", sel, "force"), Op("waitForTimeout", Undef, 500)>>,
               Failing, cls), LAMBDA x1 :
  Bind(IF kind = "fill"
         THEN Return(PageOp(x1, Op("fill", sel, OrElse(a.value, "pizza")), Failing, cls), Success)
       ELSE IF kind = "press"
         THEN Bind(VerifySearch(PressAndSettle(x1, sel, Failing, cls), Failing), LAMBDA x2 :
                IF ~Running(x2) \/ x2.val THEN Return(x2, Success)
                ELSE Throw(x2, SearchFailedMsg))
       ELSE Return(x1, Success), LAMBDA x3 :
    IF x3.exc # NoExc THEN [x3 EXCEPT !.exc = NoExc, !.ret = Failure(x3.exc)] ELSE x3))

\* the catch block of executeAction
CatchBlock(x, n, Failing, cls) ==
  LET error == x.exc IN
  Bind(PageOp([x EXCEPT !.exc = NoExc, !.caught = error],
              Op("screenshot", Undef, Undef), Failing, cls), LAMBDA x1 :
    IF x1.exc # NoExc THEN x1   \* the screenshot threw: nothing catches it
    ELSE IF n.selector = SearchSel /\ IncludesHidden(error)
      THEN SearchRetry(x1, n.selector, n.validAction, n.action, Failing, cls)
      ELSE Return(x1, Failure(error)))

\* The whole call.  Result: the page afterwards, the operations issued, and
\* either the value returned or the error that left the function (with the
\* error the outer catch block received, if it ran).
executeAction(p, a, Failing, cls) ==
  IF IsNullAction(a)  \* action.selector on null, before the try
    THEN [page |-> p, trace |-> <<>>,
          result |-> [kind |-> "threw", error |-> TypeErrorMsg, caught |-> NoExc]]
  ELSE Bind(Normalize(a), LAMBDA n :
    IF n.threw
      THEN [page |-> p, trace |-> <<>>,
            result |-> [kind |-> "threw", error |-> TypeErrorMsg, caught |-> NoExc]]
    ELSE Bind(TryBlock(StartRun(p), n, Failing, cls), LAMBDA x :
         Bind(IF x.exc # NoExc THEN CatchBlock(x, n, Failing, cls) ELSE x, LAMBDA y :
           [page |-> y.page, trace |-> y.trace,
            result |-> IF y.exc # NoExc
                         THEN [kind |-> "threw", error |-> y.exc, caught |-> y.caught]
                         ELSE [kind |-> "returned", value |-> y.ret, caught |-> y.caught]])))

(***************************************************************************)
(* SpecExec: one call of executeAction on a page, under every choice of    *)
(* which page operations fail                                              *)
(***************************************************************************)
\* Which page operations of one call reject: at most two of the operations
\* the call actually issues, named by their ordinal.  The second ordinal is
\* drawn from the operations issued once the first has rejected.
IssuedBy(p, a, Failing, cls) ==
  LET n == Len(executeAction(p, a, Failing, cls).trace)
  IN  1..(IF n < MaxOpIndex THEN n ELSE MaxOpIndex)

FailureSets(p, a, cls) ==
  {{}} \cup {{i} : i \in IssuedBy(p, a, {}, cls)}
       \cup UNION {{{i, j} : j \in {k \in IssuedBy(p, a, {i}, cls) : k > i}}
                    : i \in IssuedBy(p, a, {}, cls)}

InitExec ==
  /\ xAction \in Actions
  /\ xPage \in Pages
  /\ PageFits(xAction, xPage)
  /\ xTrace = <<>>
  /\ xResult = NoResult
  /\ SnapIdle /\ LoopIdle /\ SideIdle

ExecuteAction ==
  /\ xResult = NoResult
  /\ \E cls \in ErrorClasses :
     \E Failing \in FailureSets(xPage, xAction, cls) :
       \E r \in {executeAction(xPage, xAction, Failing, cls)} :
         /\ xPage' = r.page
         /\ xTrace' = r.trace
         /\ xResult' = r.result
  /\ UNCHANGED <<xAction, snapVars, loopVars, sideVars>>

NextExec == ExecuteAction

SpecExec == InitExec /\ [][NextExec]_vars

(***************************************************************************)
(* SpecLoop: the /run-campaign handler after the browser is connected:     *)
(* the three login steps, the main automation loop, the scripted fallback  *)
(* and the response.  pc is the await the handler is at.                   *)
(***************************************************************************)
MaxFaults == 4     \* failed operations one run meets and survives
LoginSteps == 3    \* const loginSteps = [ fill email, fill password, click ]
StepLimit == 20    \* while (currentStep < 20 && ...
FailureLimit == 3  \* ... consecutiveFailures < 3)
SpecialStep == 3   \* if (currentStep === 3)

\* automationSteps.push({ step: currentStep, action, result })
StepRecord(step, ok) == [step |-> step, success |-> ok]

\* res.json({ success: true, ..., details: automationSteps })
OkResponse(steps) == [kind |-> "ok", status |-> 200, details |-> steps]
\* res.status(500).json({ success: false, error: 'Error starting campaign' })
ErrorResponse == [kind |-> "error", status |-> 500]

\* while (currentStep < 20 && consecutiveFailures < 3)
LoopCondition == currentStep < StepLimit /\ consecutiveFailures < FailureLimit

InitLoop ==
  /\ pc = "login"
  /\ currentStep = 0
  /\ consecutiveFailures = 0
  /\ automationSteps = <<>>
  /\ faults = 0
  /\ fallbackCalls = 0
  /\ executeCalls = 0
  /\ response = NoResult
  /\ SnapIdle /\ ExecIdle /\ SideIdle

\* one pass of the login for-loop: the outcome is logged and never counted
LoginStep ==
  /\ pc = "login"
  /\ \E ok \in BOOLEAN :
       /\ ~ok => faults < MaxFaults
       /\ faults' = IF ok THEN faults ELSE faults + 1
       /\ automationSteps' = Append(automationSteps, StepRecord(currentStep, ok))
  /\ currentStep' = currentStep + 1
  /\ pc' = IF currentStep + 1 < LoginSteps THEN "login" ELSE "loop"
  /\ executeCalls' = executeCalls + 1
  /\ UNCHANGED <<consecutiveFailures, fallbackCalls, response, snapVars, execVars, sideVars>>

\* validatePageState returned false: consecutiveFailures++; continue
ValidateFails ==
  /\ pc = "loop" /\ LoopCondition
  /\ faults < MaxFaults
  /\ faults' = faults + 1
  /\ consecutiveFailures' = consecutiveFailures + 1
  /\ UNCHANGED <<pc, currentStep, automationSteps, fallbackCalls, executeCalls, response, snapVars, execVars, sideVars>>

\* validatePageState returned true: on to the special case or the observation
ValidateOk ==
  /\ pc = "loop" /\ LoopCondition
  /\ pc' = IF currentStep = SpecialStep THEN "special" ELSE "observe"
  /\ UNCHANGED <<currentStep, consecutiveFailures, automationSteps, faults, fallbackCalls, executeCalls,
                 response, snapVars, execVars, sideVars>>

\* "Special case for clicking Search after login": expanded -> currentStep++
\* and continue; the catch counts a failure and falls through to the rest of
\* the iteration
SpecialCase ==
  /\ pc = "special"
  /\ \/ /\ currentStep' = currentStep + 1
        /\ pc' = "loop"
        /\ UNCHANGED <<consecutiveFailures, faults>>
     \/ /\ faults < MaxFaults
        /\ faults' = faults + 1
        /\ consecutiveFailures' = consecutiveFailures + 1
        /\ pc' = "observe"
        /\ UNCHANGED currentStep
  /\ UNCHANGED <<automationSteps, fallbackCalls, executeCalls, response, snapVars, execVars, sideVars>>

\* DOM info, screenshot, message, run, getAssistantResponse: an answer, or
\* none (consecutiveFailures++; continue)
Ask ==
  /\ pc = "observe"
  /\ \/ /\ pc' = "execute"
        /\ UNCHANGED <<consecutiveFailures, faults>>
     \/ /\ faults < MaxFaults
        /\ faults' = faults + 1
        /\ consecutiveFailures' = consecutiveFailures + 1
        /\ pc' = "loop"
  /\ UNCHANGED <<currentStep, automationSteps, fallbackCalls, executeCalls, response, snapVars, execVars, sideVars>>

\* executeAction on the parsed answer, the record, and the counters
Execute ==
  /\ pc = "execute"
  /\ \E ok \in BOOLEAN :
       /\ ~ok => faults < MaxFaults
       /\ faults' = IF ok THEN faults ELSE faults + 1
       /\ automationSteps' = Append(automationSteps, StepRecord(currentStep, ok))
       /\ consecutiveFailures' = IF ok THEN 0 ELSE consecutiveFailures + 1
       /\ currentStep' = IF ok THEN currentStep + 1 ELSE currentStep
  /\ pc' = "loop"
  /\ executeCalls' = executeCalls + 1
  /\ UNCHANGED <<fallbackCalls, response, snapVars, execVars, sideVars>>

\* the loop condition is false: hideAgentStatus, then the fallback or the
\* success response
ExitLoop ==
  /\ pc = "loop" /\ ~LoopCondition
  /\ IF consecutiveFailures >= FailureLimit
       THEN pc' = "fallback" /\ UNCHANGED response
       ELSE pc' = "done" /\ response' = OkResponse(automationSteps)
  /\ UNCHANGED <<currentStep, consecutiveFailures, automationSteps, faults, fallbackCalls, executeCalls,
                 snapVars, execVars, sideVars>>

\* automateResquared: true -> success response; false -> 'Both AI and direct
\* automation failed' is thrown and the handler's catch answers 500
Fallback ==
  /\ pc = "fallback"
  /\ fallbackCalls' = fallbackCalls + 1
  /\ \E automationSuccess \in BOOLEAN :
       response' = IF automationSuccess THEN OkResponse(automationSteps) ELSE ErrorResponse
  /\ pc' = "done"
  /\ UNCHANGED <<executeCalls, currentStep, consecutiveFailures, automationSteps, faults, snapVars, execVars, sideVars>>

\* an awaited call outside every inner try rejects (executeAction throwing,
\* which is a call made; page.waitForTimeout, getDetailedDomInfo, the
\* screenshot, the upload, the decision function's API): the handler's catch
\* answers 500
Abort ==
  /\ pc \in {"login", "special", "observe", "execute"}
  /\ pc' = "done"
  /\ response' = ErrorResponse
  /\ executeCalls' \in IF pc \in {"login", "execute"}
                         THEN {executeCalls, executeCalls + 1} ELSE {executeCalls}
  /\ UNCHANGED <<currentStep, consecutiveFailures, automationSteps, faults, fallbackCalls,
                 snapVars, execVars, sideVars>>

NextLoop ==
  \/ LoginStep \/ ValidateFails \/ ValidateOk \/ SpecialCase \/ Ask \/ Execute
  \/ ExitLoop \/ Fallback \/ Abort

SpecLoop == InitLoop /\ [][NextLoop]_vars

(***************************************************************************)
(* SpecRequest: the three /run-campaign handlers of the repository from    *)
(* the arrival of a request to their first external operations             *)
(***************************************************************************)
Handlers == {"agent", "playwright", "grok"}

\* a field of req.body: absent, empty, or given
FieldValues == {Undef, "", "x"}
Bodies == [prompt : FieldValues, saasUrl : FieldValues,
           saasUsername : FieldValues, saasPassword : FieldValues]

\* !prompt || !saasUrl || !saasUsername || !saasPassword
MissingFields(b) ==
  ~Truthy(b.prompt) \/ ~Truthy(b.saasUrl) \/ ~Truthy(b.saasUsername) \/ ~Truthy(b.saasPassword)

\* res.status(400).json({ success: false, error: 'Missing required fields' })
BadRequest == [kind |-> "error", status |-> 400]
\* the 500 answer of a handler's catch
ServerError == [kind |-> "error", status |-> 500]

\* the external operations each handler starts first, in order
AgentOps == <<"browserUse.startAndWait">>
PlaywrightOps == <<"chromium.connectOverCDP", "browser.newContext", "context.newPage">>
GrokOps == <<"openai.assistants.retrieve", "openai.threads.create",
             "openai.threads.messages.create", "chromium.connectOverCDP">>

\* ops are awaited one after the other inside the handler's try; n of them
\* are started, and when the last started one rejects the catch answers 500
StartOps(ops) ==
  \E n \in 1..Len(ops), rejected \in BOOLEAN :
    /\ rqStarted' = SubSeq(ops, 1, n)
    /\ rqResponse' = IF rejected THEN ServerError ELSE rqResponse
    /\ (n < Len(ops)) => rejected

Fresh == rqStarted = <<>> /\ rqResponse = NoResult

notReqVars == <<runVars, pollVars, snapVars, execVars, loopVars, cycle, gx, shut, urlCall, race, ans, iter, fin, job, logrun>>

InitRequest ==
  /\ rqHandler \in Handlers
  /\ rqBody \in Bodies
  /\ rqStarted = <<>>
  /\ rqResponse = NoResult
  /\ IdleExcept("req")

\* the remote-agent handler: the field test, then startAndWait
RunCampaignAgent ==
  /\ rqHandler = "agent" /\ Fresh
  /\ IF MissingFields(rqBody)
       THEN rqResponse' = BadRequest /\ UNCHANGED rqStarted
       ELSE StartOps(AgentOps)
  /\ UNCHANGED <<rqHandler, rqBody, notReqVars>>

\* the Playwright handler: the field test, then the browser connection
RunCampaignPlaywright ==
  /\ rqHandler = "playwright" /\ Fresh
  /\ IF MissingFields(rqBody)
       THEN rqResponse' = BadRequest /\ UNCHANGED rqStarted
       ELSE StartOps(PlaywrightOps)
  /\ UNCHANGED <<rqHandler, rqBody, notReqVars>>

\* the handler of grok.js: req.body is destructured and used as it is
RunCampaignGrok ==
  /\ rqHandler = "grok" /\ Fresh
  /\ StartOps(GrokOps)
  /\ UNCHANGED <<rqHandler, rqBody, notReqVars>>

NextRequest == RunCampaignAgent \/ RunCampaignPlaywright \/ RunCampaignGrok

SpecRequest == InitRequest /\ [][NextRequest]_vars

(***************************************************************************)
(* SpecRuns: two /run-campaign requests served by one process.  Each run   *)
(* has its own browser, context, page and counters; both write their step  *)
(* screenshot to screenshots/step_<currentStep>.png and read it back for   *)
(* the upload.  Every await is a point where the other run may proceed.    *)
(***************************************************************************)
MaxRunStep == 5   \* the two runs are followed up to this currentStep

Runs == {1, 2}
NoRun == 0
\* screenshots/step_${currentStep}.png, named by the step
ScreenshotPaths == SpecialStep..MaxRunStep

InitRuns ==
  /\ runPc = [r \in Runs |-> "special"]
  /\ runStep = [r \in Runs |-> LoginSteps]
  /\ files = [path \in ScreenshotPaths |-> NoRun]
  /\ uploaded = [r \in Runs |-> NoRun]
  /\ IdleExcept("run")

\* the special case at currentStep 3: currentStep++ and continue, or fall
\* through to the observation of the same iteration
RunSpecialCase(r) ==
  /\ runPc[r] = "special"
  /\ \E expanded \in BOOLEAN :
       runStep' = [runStep EXCEPT ![r] = IF expanded THEN @ + 1 ELSE @]
  /\ runPc' = [runPc EXCEPT ![r] = "capture"]
  /\ UNCHANGED <<files, uploaded>>

\* await page.screenshot({ path: screenshotPath, fullPage: true })
RunCapture(r) ==
  /\ runPc[r] = "capture"
  /\ files' = [files EXCEPT ![runStep[r]] = r]
  /\ runPc' = [runPc EXCEPT ![r] = "upload"]
  /\ UNCHANGED <<runStep, uploaded>>

\* await uploadScreenshot(screenshotPath): fs.readFile of the path, then the
\* upload; null when it fails
RunUpload(r) ==
  /\ runPc[r] = "upload"
  /\ \E ok \in BOOLEAN :
       uploaded' = [uploaded EXCEPT ![r] = IF ok THEN files[runStep[r]] ELSE NoRun]
  /\ runPc' = [runPc EXCEPT ![r] = "asked"]
  /\ UNCHANGED <<runStep, files>>

\* the answer is executed: currentStep++ on success, the same step again on
\* failure
RunAct(r) ==
  /\ runPc[r] = "asked"
  /\ \E ok \in BOOLEAN :
       /\ runStep' = [runStep EXCEPT ![r] = IF ok THEN @ + 1 ELSE @]
       /\ runPc' = [runPc EXCEPT ![r] = IF ok /\ runStep[r] = MaxRunStep
                                          THEN "done" ELSE "capture"]
  /\ UNCHANGED <<files, uploaded>>

notRunVars == <<reqVars, pollVars, snapVars, execVars, loopVars, cycle, gx, shut, urlCall, race, ans, iter, fin, job, logrun>>

SomeRunSpecialCase == (\E r \in Runs : RunSpecialCase(r)) /\ UNCHANGED notRunVars
SomeRunCapture == (\E r \in Runs : RunCapture(r)) /\ UNCHANGED notRunVars
SomeRunUpload == (\E r \in Runs : RunUpload(r)) /\ UNCHANGED notRunVars
SomeRunAct == (\E r \in Runs : RunAct(r)) /\ UNCHANGED notRunVars

NextRuns == SomeRunSpecialCase \/ SomeRunCapture \/ SomeRunUpload \/ SomeRunAct

SpecRuns == InitRuns /\ [][NextRuns]_vars

(***************************************************************************)
(* SpecOverlay: the automation shows its status overlay on the page        *)
(* (showAgentStatus), hides it (hideAgentStatus) and snapshots the page    *)
(***************************************************************************)
MaxStatusStep == 2  \* steps the overlay is shown for

AgentStatusId == "ai-agent-status"

\* statusDiv, its text container and the two divs of the container's innerHTML
StatusT(shown) ==
  IF shown
    THEN Elem("DIV", AgentStatusId, NoAttrs, 100, 20, "visible", "flex", "1", FALSE)
    ELSE Elem("DIV", AgentStatusId, NoAttrs, 0, 0, "visible", "none", "1", FALSE)
OverlayChildT(id, shown) ==
  IF shown
    THEN Elem("DIV", id, NoAttrs, 100, 20, "visible", "block", "1", FALSE)
    ELSE Elem("DIV", id, NoAttrs, 0, 0, "visible", "block", "1", FALSE)

StepText(step) == TextNode(<<"S", "t", "e", "p", " ", ToString(step)>>)
Messages == {<<"A", "n", "a", "l", "y", "z", "i", "n", "g">>, <<"W", "a", "i", "t", "i", "n", "g">>}

\* the nodes of the overlay in document order, and the place of each one's
\* parent among them (0: document.body)
OverlayNodes(shown, message, step) ==
  <<StatusT(shown), OverlayChildT("", shown), BlankT,
    OverlayChildT("ai-agent-step", shown), StepText(step), BlankT,
    OverlayChildT("ai-agent-message", shown), TextNode(message), BlankT>>
OverlayParents == <<0, 1, 2, 2, 4, 2, 2, 7, 2>>

\* document.getElementById('ai-agent-status')
StatusElement(d) ==
  {k \in 1..d.n : d.tmpl[k].nodeType = "ELEMENT" /\ d.tmpl[k].id = AgentStatusId}

\* the overlay written at free nodes b+1 .. b+9 of d
WithOverlay(d, b, shown, message, step) ==
  LET nodes == OverlayNodes(shown, message, step)
      last == b + Len(nodes)
  IN [d EXCEPT !.n = last,
               !.parent = [k \in 1..last |->
                             IF k <= b THEN d.parent[k]
                             ELSE IF OverlayParents[k - b] = 0 THEN 0
                             ELSE b + OverlayParents[k - b]],
               !.tmpl = [k \in 1..last |-> IF k <= b THEN d.tmpl[k] ELSE nodes[k - b]]]

OverlayDocs == {d \in Docs : d.hasBody /\ d.wrap = 0 /\ d.n <= 1}

InitOverlay ==
  /\ doc \in OverlayDocs
  /\ snapshot = NoSnapshot
  /\ prevSnapshot = NoSnapshot
  /\ ExecIdle /\ LoopIdle /\ SideIdle

\* showAgentStatus(page, message, step): inject the element if it is not on
\* the page, then write the step and the message
ShowAgentStatus ==
  /\ \E message \in Messages, step \in 1..MaxStatusStep :
       \E d \in {IF StatusElement(doc) = {}
                   THEN WithOverlay(doc, doc.n, TRUE, message, step)
                   ELSE LET b == (CHOOSE k \in StatusElement(doc) : TRUE) - 1
                        IN WithOverlay(doc, b, doc.tmpl[b + 1].display # "none", message, step)} :
         /\ d # doc
         /\ doc' = d
  /\ UNCHANGED <<snapshot, prevSnapshot, execVars, loopVars, sideVars>>

\* hideAgentStatus(page): statusElement.style.display = 'none'
HideAgentStatus ==
  /\ StatusElement(doc) # {}
  /\ \E k \in StatusElement(doc) :
       /\ doc.tmpl[k].display # "none"
       /\ doc' = [doc EXCEPT !.tmpl = [j \in 1..doc.n |->
                    IF j < k THEN doc.tmpl[j]
                    ELSE IF j = k THEN StatusT(FALSE)
                    ELSE IF doc.tmpl[j].nodeType = "ELEMENT"
                      THEN OverlayChildT(doc.tmpl[j].id, FALSE)
                    ELSE doc.tmpl[j]]]
  /\ UNCHANGED <<snapshot, prevSnapshot, execVars, loopVars, sideVars>>

NextOverlay == ShowAgentStatus \/ HideAgentStatus \/ TakeSnapshot

SpecOverlay == InitOverlay /\ [][NextOverlay]_vars

(***************************************************************************)
(* SpecPoll: getAssistantResponse(thread, run), in the version of the      *)
(* server ("server") and in the version of grok.js ("grok"), against an    *)
(* upstream that reports the status of the run at every runs.retrieve      *)
(***************************************************************************)
MaxPolls == 4   \* runs.retrieve calls are counted up to this number

PollImpls == {"server", "grok"}

\* what the upstream may report next, given what it reported last: a run is
\* queued, then in progress, then ends, asks for tool outputs, or expires
Upstream(st) ==
  CASE st = "queued" -> {"queued", "in_progress", "cancelling", "failed", "expired"}
    [] st = "in_progress" -> {"in_progress", "completed", "failed", "incomplete",
                              "requires_action", "cancelling", "expired"}
    [] st = "requires_action" -> {"requires_action", "cancelling", "expired"}
    [] st = "cancelling" -> {"cancelling", "cancelled"}
    [] OTHER -> {st}

\* the condition of the polling loop
\*   server: runStatus.status === 'queued' || runStatus.status === 'in_progress'
\*   grok:   status !== 'completed' && status !== 'failed' && status !== 'cancelled'
KeepsPolling(impl, st) ==
  IF impl = "server" THEN st \in {"queued", "in_progress"}
  ELSE st \notin {"completed", "failed", "cancelled"}

\* the server's version retrieves the run once before the loop
AtLoop == pollImpl = "server" => polls > 0

InitPoll ==
  /\ pollImpl \in PollImpls
  /\ runStatus \in {"queued", "in_progress"}
  /\ polls = 0
  /\ tick = FALSE
  /\ pollResult = "pending"
  /\ IdleExcept("poll")

notPollVars == <<reqVars, runVars, snapVars, execVars, loopVars, cycle, gx, shut, urlCall, race, ans, iter, fin, job, logrun>>

\* let runStatus = await openai.beta.threads.runs.retrieve(...), before the loop
RetrieveFirst ==
  /\ pollResult = "pending" /\ pollImpl = "server" /\ polls = 0
  /\ \E st \in Upstream(runStatus) : runStatus' = st
  /\ polls' = 1
  /\ UNCHANGED <<pollImpl, tick, pollResult, notPollVars>>

\* one pass of the loop: the one-second timer, then runs.retrieve
PollAgain ==
  /\ pollResult = "pending" /\ AtLoop /\ KeepsPolling(pollImpl, runStatus)
  /\ tick' = ~tick
  /\ \E st \in Upstream(runStatus) : runStatus' = st
  /\ polls' = IF polls < MaxPolls THEN polls + 1 ELSE polls
  /\ UNCHANGED <<pollImpl, pollResult, notPollVars>>

\* runs.retrieve or messages.list rejects: the catch returns null
RetrieveThrows ==
  /\ pollResult = "pending"
  /\ (AtLoop => KeepsPolling(pollImpl, runStatus) \/ runStatus = "completed")
  /\ pollResult' = "null"
  /\ UNCHANGED <<pollImpl, runStatus, polls, tick, notPollVars>>

\* after the loop: the latest assistant message of a completed run, null
\* when there is none or the run ended otherwise
PollReturn ==
  /\ pollResult = "pending" /\ AtLoop /\ ~KeepsPolling(pollImpl, runStatus)
  /\ \E found \in BOOLEAN :
       pollResult' = IF runStatus = "completed" /\ found THEN "content" ELSE "null"
  /\ UNCHANGED <<pollImpl, runStatus, polls, tick, notPollVars>>

NextPoll == RetrieveFirst \/ PollAgain \/ RetrieveThrows \/ PollReturn

SpecPoll == InitPoll /\ [][NextPoll]_vars

\* the timers fire and the awaited calls settle
SpecPollLive == SpecPoll /\ WF_vars(NextPoll)

(***************************************************************************)
(* SpecCycle: the main loop of /run-campaign (both servers) as cycles of   *)
(* observing the page, asking the assistant and executing its answer.      *)
(* observations[k] tells when observation k was taken; the thread holds    *)
(* the user messages (one per observation sent) and the assistant's        *)
(* answers, each answer given to the latest user message before it.        *)
(***************************************************************************)
MaxCycles == 4   \* passes through the loop body per run

CycleImpls == {"playwright", "grok"}

\* while (currentStep < 20 && consecutiveFailures < 3)
CycleContinues(c) == c.currentStep < StepLimit /\ c.consecutiveFailures < FailureLimit

UserObs(thread) ==
  LET us == SelectSeq(thread, LAMBDA msg : msg.role = "user")
  IN IF us = <<>> THEN 0 ELSE us[Len(us)].obs

\* faulty variant: the oldest assistant message is taken
OldestAssistant(thread) ==
  SelectSeq(thread, LAMBDA msg : msg.role = "assistant")[1]

\* messages.data.filter(msg => msg.role === 'assistant')[0], newest first
LatestAssistant(thread) ==
  LET as == SelectSeq(thread, LAMBDA msg : msg.role = "assistant")
  IN as[Len(as)]

InitCycle ==
  /\ cycle \in {[impl |-> i, pc |-> "top", currentStep |-> LoginSteps,
                 consecutiveFailures |-> 0, cycles |-> 0, observations |-> <<>>,
                 thread |-> <<>>, decision |-> 0, executed |-> <<>>] : i \in CycleImpls}
  /\ IdleExcept("cycle")

notCycleVars == <<snapVars, execVars, loopVars, reqVars, runVars, pollVars, gx, shut, urlCall, race, ans, iter, fin, job, logrun>>

\* top of the loop body; validatePageState exists in one of the two servers
CycleBegin ==
  /\ cycle.pc = "top" /\ CycleContinues(cycle) /\ cycle.cycles < MaxCycles
  /\ \E valid \in (IF cycle.impl = "playwright" THEN BOOLEAN ELSE {TRUE}) :
       cycle' = IF ~valid
                  THEN [cycle EXCEPT !.cycles = @ + 1, !.consecutiveFailures = @ + 1]
                ELSE [cycle EXCEPT !.cycles = @ + 1,
                        !.pc = IF cycle.currentStep = SpecialStep THEN "special" ELSE "observe"]
  /\ UNCHANGED notCycleVars

\* if (currentStep === 3): the scripted click on the Search section
CycleSpecial ==
  /\ cycle.pc = "special"
  /\ \E ok \in BOOLEAN :
       cycle' = IF ok THEN [cycle EXCEPT !.currentStep = @ + 1, !.pc = "top"]
                ELSE IF cycle.impl = "playwright"
                  THEN [cycle EXCEPT !.consecutiveFailures = @ + 1, !.pc = "observe"]
                ELSE [cycle EXCEPT !.pc = "observe"]
  /\ UNCHANGED notCycleVars

\* getDetailedDomInfo + screenshot + messages.create. "sent": the message is
\* in the thread; "lost": it is not; "sentThenThrew": it is, but the helper
\* of grok.js returned false because logMessage threw after the create
Observe ==
  /\ cycle.pc = "observe"
  /\ \E how \in (IF cycle.impl = "grok" THEN {"sent", "lost", "sentThenThrew"}
                 ELSE {"sent", "lost"}) :
       LET k == Len(cycle.observations) + 1
           seen == [cycle EXCEPT !.observations =
                      Append(@, [after |-> Len(cycle.executed), cycle |-> cycle.cycles])]
           posted == [seen EXCEPT !.thread = Append(@, [role |-> "user", obs |-> k])]
       IN cycle' =
            CASE how = "sent" -> [posted EXCEPT !.pc = "run"]
              [] how = "lost" /\ cycle.impl = "grok" ->
                   [seen EXCEPT !.consecutiveFailures = @ + 1, !.pc = "top"]
              [] how = "lost" /\ cycle.impl = "playwright" ->
                   \* the exception leaves the handler
                   [seen EXCEPT !.pc = "done"]
              [] OTHER -> [posted EXCEPT !.consecutiveFailures = @ + 1, !.pc = "top"]
  /\ UNCHANGED notCycleVars

\* runs.create + getAssistantResponse: a completed run has added the
\* assistant's answer to the thread; anything else makes the helper return null
RunAssistant ==
  /\ cycle.pc = "run"
  /\ \E status \in {"completed", "failed"} :
       cycle' =
         IF status = "completed"
           THEN Bind(Append(cycle.thread, [role |-> "assistant", obs |-> UserObs(cycle.thread)]),
                     LAMBDA t : [cycle EXCEPT !.thread = t,
                                              !.decision = LatestAssistant(t).obs,
                                              !.pc = "execute"])
           ELSE [cycle EXCEPT !.consecutiveFailures = @ + 1, !.pc = "top"]
  /\ UNCHANGED notCycleVars

\* executeAction(page, action) and the bookkeeping after it
CycleExecute ==
  /\ cycle.pc = "execute"
  /\ \E success \in BOOLEAN :
       LET ran == [cycle EXCEPT !.executed =
                     Append(@, [obs |-> cycle.decision, cycle |-> cycle.cycles]),
                                !.pc = "top"]
       IN cycle' = IF success
                     THEN [ran EXCEPT !.consecutiveFailures = 0, !.currentStep = @ + 1]
                     ELSE [ran EXCEPT !.consecutiveFailures = @ + 1]
  /\ UNCHANGED notCycleVars

CycleExit ==
  /\ cycle.pc = "top" /\ ~CycleContinues(cycle)
  /\ cycle' = [cycle EXCEPT !.pc = "done"]
  /\ UNCHANGED notCycleVars

NextCycle ==
  CycleBegin \/ CycleSpecial \/ Observe \/ RunAssistant \/ CycleExecute \/ CycleExit

SpecCycle == InitCycle /\ [][NextCycle]_vars

(***************************************************************************)
(* SpecGrokExec: executeAction of grok.js for click and fill. The page     *)
(* tells which candidates of the selector list resolve, whether an element *)
(* with the text Email exists and whether the generic scan finds a target. *)
(***************************************************************************)
MaxLive == 2   \* candidates of one list that resolve on a page

GrokSelectors == {Undef, "Email", "Save to List"}
GrokDescriptions == {Undef, "Select the Email filter", "Save the list"}

\* s.includes('Email'), tabulated over the strings in use
IncludesEmail(s) == s \in {"Email", "Select the Email filter"}

GrokActions ==
  [action : {"click", "fill"}, selector : GrokSelectors, description : GrokDescriptions,
   value : {"pizza"}]

\* length of selectors / fillSelectors
Candidates(kind) == IF kind = "click" THEN 1..8 ELSE 1..7

GrokPages(kind) ==
  [live : {L \in SUBSET Candidates(kind) : Cardinality(L) <= MaxLive},
   emailPresent : BOOLEAN, scanFinds : BOOLEAN]

GrokSuccess == [success |-> TRUE, error |-> Undef]
GrokFailure(msg) == [success |-> FALSE, error |-> msg]

RECURSIVE TryCandidates(_, _, _, _)
\* for (const selector of selectors) { try { await page.click(selector); return
\* success } catch {} }, then the scan over the whole document
TryCandidates(kind, page, i, trace) ==
  IF i \notin Candidates(kind)
    THEN [trace |-> Append(trace, [op |-> "scan", candidate |-> 0, ok |-> page.scanFinds]),
          result |-> IF page.scanFinds THEN GrokSuccess
                     ELSE GrokFailure("Failed with any selector")]
  ELSE IF i \in page.live
    THEN [trace |-> Append(trace, [op |-> kind, candidate |-> i, ok |-> TRUE]),
          result |-> GrokSuccess]
  ELSE TryCandidates(kind, page, i + 1,
                     Append(trace, [op |-> kind, candidate |-> i, ok |-> FALSE]))

grokExecuteAction(page, action) ==
  IF action.action = "fill" THEN TryCandidates("fill", page, 1, <<>>)
  \* action.selector.includes('Email') || action.description.includes('Email'):
  \* a property read on undefined throws, and the outer catch answers
  ELSE IF action.selector = Undef
    THEN [trace |-> <<>>, result |-> GrokFailure(TypeErrorMsg)]
  ELSE IF ~IncludesEmail(action.selector) /\ action.description = Undef
    THEN [trace |-> <<>>, result |-> GrokFailure(TypeErrorMsg)]
  ELSE IF IncludesEmail(action.selector) \/ IncludesEmail(action.description)
    THEN IF page.emailPresent
           THEN [trace |-> <<[op |-> "emailJs", candidate |-> 0, ok |-> TRUE]>>,
                 result |-> GrokSuccess]
           ELSE TryCandidates("click", page, 1,
                              <<[op |-> "emailJs", candidate |-> 0, ok |-> FALSE]>>)
  ELSE TryCandidates("click", page, 1, <<>>)

InitGrokExec ==
  /\ gx \in {[pc |-> "ready", action |-> a, page |-> p, trace |-> <<>>, result |-> GrokSuccess] :
               a \in GrokActions, p \in GrokPages("click") \cup GrokPages("fill")}
  /\ gx.page \in GrokPages(gx.action.action)
  /\ IdleExcept("gx")

notGxVars == <<snapVars, execVars, loopVars, reqVars, runVars, pollVars, cycle, shut, urlCall, race, ans, iter, fin, job, logrun>>

GrokExecuteAction ==
  /\ gx.pc = "ready"
  /\ \E r \in {grokExecuteAction(gx.page, gx.action)} :
       gx' = [gx EXCEPT !.pc = "done", !.trace = r.trace, !.result = r.result]
  /\ UNCHANGED notGxVars

NextGrokExec == GrokExecuteAction

SpecGrokExec == InitGrokExec /\ [][NextGrokExec]_vars

(***************************************************************************)
(* SpecShutdown: process.on('SIGINT'). The remote service holds sessions   *)
(* (position in the list stands for the jobId); list() or a stop() may     *)
(* reject.                                                                 *)
(***************************************************************************)
MaxSessions == 3   \* sessions the remote service lists

SessionLists ==
  UNION {[1..n -> {"running", "completed"}] : n \in 0..MaxSessions}

InitShutdown ==
  /\ shut \in {[pc |-> "signalled", sessions |-> ss, listRejects |-> lr, stopRejects |-> sr,
                i |-> 1, attempted |-> {}, stopped |-> {}] :
                 ss \in SessionLists, lr \in BOOLEAN, sr \in SUBSET (1..MaxSessions)}
  /\ shut.stopRejects \subseteq DOMAIN shut.sessions
  /\ IdleExcept("shut")

notShutVars == <<snapVars, execVars, loopVars, reqVars, runVars, pollVars, cycle, gx, urlCall, race, ans, iter, fin, job, logrun>>

\* const sessions = await hbClient.beta.agents.browserUse.list()
ListSessions ==
  /\ shut.pc = "signalled"
  /\ shut' = [shut EXCEPT !.pc = IF shut.listRejects THEN "caught" ELSE "loop"]
  /\ UNCHANGED notShutVars

\* one round of for (const session of sessions): a rejected stop leaves the
\* loop for the catch block
StopSession ==
  /\ shut.pc = "loop"
  /\ shut.i <= Len(shut.sessions)
  /\ shut' =
       IF shut.sessions[shut.i] # "running" THEN [shut EXCEPT !.i = @ + 1]
       ELSE IF shut.i \in shut.stopRejects
         THEN [shut EXCEPT !.attempted = @ \cup {shut.i}, !.pc = "caught"]
       ELSE [shut EXCEPT !.attempted = @ \cup {shut.i}, !.stopped = @ \cup {shut.i},
                         !.i = @ + 1]
  /\ UNCHANGED notShutVars

\* process.exit(0), after the loop or after the catch block
ProcessExit ==
  /\ \/ shut.pc = "caught"
     \/ shut.pc = "loop" /\ shut.i > Len(shut.sessions)
  /\ shut' = [shut EXCEPT !.pc = "exited"]
  /\ UNCHANGED notShutVars

NextShutdown == ListSessions \/ StopSession \/ ProcessExit

SpecShutdown == InitShutdown /\ [][NextShutdown]_vars

(***************************************************************************)
(* SpecUrl: ensureUrlProtocol of the two servers, on strings (sequences of *)
(* characters) put together from scheme prefixes and a host                *)
(***************************************************************************)
MaxParts == 4   \* pieces a URL argument is put together from

Http == <<"h", "t", "t", "p", ":", "/", "/">>
Https == <<"h", "t", "t", "p", "s", ":", "/", "/">>
HttpsDoubleColon == <<"h", "t", "t", "p", "s", ":", ":", "/", "/">>
HttpDoubleColon == <<"h", "t", "t", "p", ":", ":", "/", "/">>
Host == <<"a", ".", "b">>

UrlParts == {Http, Https, HttpsDoubleColon, Host}

RECURSIVE Concat(_)
Concat(parts) == IF parts = <<>> THEN <<>> ELSE Head(parts) \o Concat(Tail(parts))

\* pat occurs in u at position i
OccursAt(u, i, pat) ==
  /\ i + Len(pat) - 1 <= Len(u)
  /\ SubSeq(u, i, i + Len(pat) - 1) = pat

\* url.startsWith(prefix)
StartsWith(u, prefix) == OccursAt(u, 1, prefix)

\* length of the match of /https?:\/\// at position i, 0 when there is none
SchemeAt(u, i) ==
  IF OccursAt(u, i, Https) THEN Len(Https)
  ELSE IF OccursAt(u, i, Http) THEN Len(Http) ELSE 0

\* length of the match of /https?::\/\// at position i, 0 when there is none
DoubleColonAt(u, i) ==
  IF OccursAt(u, i, HttpsDoubleColon) THEN Len(HttpsDoubleColon)
  ELSE IF OccursAt(u, i, HttpDoubleColon) THEN Len(HttpDoubleColon) ELSE 0

RECURSIVE FixDoubleColon(_, _)
\* url.replace(/https?::\/\//g, 'https://'), from position i on
FixDoubleColon(u, i) ==
  IF i > Len(u) THEN <<>>
  ELSE IF DoubleColonAt(u, i) > 0 THEN Https \o FixDoubleColon(u, i + DoubleColonAt(u, i))
  ELSE <<u[i]>> \o FixDoubleColon(u, i + 1)

RECURSIVE DropDuplicate(_, _)
\* url.replace(/https?:\/\/(https?:\/\/)/g, '$1'), from position i on
DropDuplicate(u, i) ==
  IF i > Len(u) THEN <<>>
  ELSE IF SchemeAt(u, i) > 0 /\ SchemeAt(u, i + SchemeAt(u, i)) > 0
    THEN LET second == i + SchemeAt(u, i)
             after == second + SchemeAt(u, second)
         IN SubSeq(u, second, after - 1) \o DropDuplicate(u, after)
  ELSE <<u[i]>> \o DropDuplicate(u, i + 1)

\* if (!url.startsWith('http://') && !url.startsWith('https://')) return 'https://' + url
AddProtocol(u) ==
  IF ~StartsWith(u, Http) /\ ~StartsWith(u, Https) THEN Https \o u ELSE u

\* part_001: both replacements, then the prefix test; grok.js: the prefix test only
ensureUrlProtocol(impl, u) ==
  IF impl = "grok" THEN AddProtocol(u)
  ELSE AddProtocol(DropDuplicate(FixDoubleColon(u, 1), 1))

UrlArguments ==
  UNION {[1..n -> UrlParts] : n \in 1..MaxParts}

InitUrl ==
  /\ urlCall \in {[pc |-> "called", impl |-> i, parts |-> ps, url |-> Concat(ps),
                    returned |-> <<>>, again |-> <<>>] :
                    i \in {"playwright", "grok"}, ps \in UrlArguments}
  /\ IdleExcept("url")

notUrlVars == <<snapVars, execVars, loopVars, reqVars, runVars, pollVars, cycle, gx, shut, race, ans, iter, fin, job, logrun>>

EnsureUrlProtocol ==
  /\ urlCall.pc = "called"
  /\ \E r \in {ensureUrlProtocol(urlCall.impl, urlCall.url)} :
       urlCall' = [urlCall EXCEPT !.pc = "returned", !.returned = r]
  /\ UNCHANGED notUrlVars

\* the returned string is handed to the function once more
EnsureUrlProtocolAgain ==
  /\ urlCall.pc = "returned"
  /\ \E r \in {ensureUrlProtocol(urlCall.impl, urlCall.returned)} :
       urlCall' = [urlCall EXCEPT !.pc = "twice", !.again = r]
  /\ UNCHANGED notUrlVars

NextUrl == EnsureUrlProtocol \/ EnsureUrlProtocolAgain

SpecUrl == InitUrl /\ [][NextUrl]_vars

(***************************************************************************)
(* SpecRace: the verification after a search, a Promise.race over a wait   *)
(* for the results indicator (started first) and a wait for the no-results *)
(* indicator. fate is what each wait will do: find its element within its  *)
(* own timeout, time out, or reject early; settled is the order in which   *)
(* they did. The race takes the value of the promise that settles first.   *)
(***************************************************************************)
Waits == <<"results", "noResults">>
Fates == {"found", "timeout", "failed"}
RaceImpls == {"executeAction", "validateSearchResults"}

InitRace ==
  /\ race \in {[impl |-> i, pc |-> "start", fate |-> f, settled |-> <<>>, timer |-> FALSE,
                value |-> "unsettled", returned |-> "pending"] :
                 i \in RaceImpls, f \in [1..Len(Waits) -> Fates]}
  /\ IdleExcept("race")

notRaceVars == <<snapVars, execVars, loopVars, reqVars, runVars, pollVars, cycle, gx, shut, urlCall, ans, iter, fin, job, logrun>>

Pending(w) == \A k \in 1..Len(race.settled) : race.settled[k] # w

\* what the promise built on wait w contributes to the race when it settles:
\* executeAction maps a found element to true and any rejection to false;
\* validateSearchResults maps a found element to a label and lets a
\* rejection reject the race
Contribution(impl, w, fate) ==
  IF impl = "executeAction" THEN (IF fate = "found" THEN "true" ELSE "false")
  ELSE IF fate = "found" THEN Waits[w] ELSE "rejected"

\* both waits and, in validateSearchResults, the 5000 ms timer are started
StartWaits ==
  /\ race.pc = "start"
  /\ race' = [race EXCEPT !.pc = "racing"]
  /\ UNCHANGED notRaceVars

\* a wait settles. The waits carry the same timeout and the first was started
\* first: the second cannot time out while the first still is to find its element
WaitSettles ==
  /\ race.pc \in {"racing", "returned"}
  /\ \E w \in 1..Len(Waits) :
       /\ Pending(w)
       /\ (race.fate[w] = "timeout" /\ w = 2) => ~(Pending(1) /\ race.fate[1] = "found")
       /\ race' = [race EXCEPT !.settled = Append(@, w),
                               !.value = IF @ = "unsettled"
                                           THEN Contribution(race.impl, w, race.fate[w])
                                           ELSE @]
  /\ UNCHANGED notRaceVars

\* setTimeout(() => resolve('timeout'), 5000), started after both waits: it
\* fires after every wait that finds its element has done so
TimerFires ==
  /\ race.pc \in {"racing", "returned"}
  /\ race.impl = "validateSearchResults"
  /\ ~race.timer
  /\ \A w \in 1..Len(Waits) : Pending(w) => race.fate[w] # "found"
  /\ race' = [race EXCEPT !.timer = TRUE,
                          !.value = IF @ = "unsettled" THEN "timeout" ELSE @]
  /\ UNCHANGED notRaceVars

\* the await on the race resumes: resultsVisible in executeAction,
\* hasResults === 'results' (false in the catch block) in validateSearchResults
RaceReturns ==
  /\ race.pc = "racing"
  /\ race.value # "unsettled"
  /\ race' = [race EXCEPT !.pc = "returned",
                          !.returned = IF race.impl = "executeAction"
                                         THEN (IF race.value = "true" THEN "true" ELSE "false")
                                         ELSE (IF race.value = "results" THEN "true" ELSE "false")]
  /\ UNCHANGED notRaceVars

NextRace == StartWaits \/ WaitSettles \/ TimerFires \/ RaceReturns

SpecRace == InitRace /\ [][NextRace]_vars

(***************************************************************************)
(* Claims on executeAction                                                 *)
(***************************************************************************)
Done == xResult # NoResult
Returned(v) == xResult.kind = "returned" /\ xResult.value = v
ReturnedFailure == xResult.kind = "returned" /\ ~xResult.value.success
NoOpThrew == \A i \in 1..Len(xTrace) : xTrace[i].out # "throw"
CountOps(P(_)) == Cardinality({i \in 1..Len(xTrace) : P(xTrace[i])})
IsEnterDispatched(e) == e.op = "press" /\ e.arg = "Enter" /\ e.out = "ok"
\* operations that touch an element of the page
ActsOnTarget(e) ==
  e.op \in {"click", "fill", "press", "elementClick", "$", "waitForSelector", "isVisible"}
NormOf(a) == Normalize(a)
IsMalformed(a) == ~IsNullAction(a) /\ (~Truthy(a.selector) \/ a.action \notin ValidKinds)
CarriesSearchFields(a) ==
  Truthy(a.searchText) \/ a.inputFields.kind # "undefined" \/ Truthy(a.search_query)

\* C3 (as claimed): executeAction never lets an exception propagate to its
\* caller, it always returns {success: true} or {success: false, error}.
C3_NeverThrows == Done => xResult.kind = "returned"

\* C4 (as claimed): an action of kind wait performs one delay of the requested
\* duration (2000 ms by default), no other page interaction, and succeeds.
C4_WaitIsPureDelay ==
  (Done /\ ~IsNullAction(xAction) /\ xAction.action = "wait") =>
    /\ Returned(Success)
    /\ Len(xTrace) = 1
    /\ xTrace[1].op = "waitForTimeout"
    /\ xTrace[1].arg = WaitDuration(xAction)

\* C5: press Enter on the search box, every page operation succeeds, no
\* indicator ever appears: Enter is dispatched exactly twice and the call
\* returns a failure.
IsSearchPressEnter(a) ==
  ~IsNullAction(a) /\ a.action = "press" /\ a.selector = SearchSel /\ a.key = "Enter"

C5_OneRetryThenFailure ==
  (Done /\ IsSearchPressEnter(xAction) /\ xPage.resultsAfter = Never /\ NoOpThrew) =>
    /\ CountOps(IsEnterDispatched) = 2
    /\ ReturnedFailure

C5_Witness ==
  /\ Done /\ IsSearchPressEnter(xAction) /\ xPage.resultsAfter = Never /\ NoOpThrew
  /\ CountOps(LAMBDA e : e.op = "raceIndicators" /\ e.out = "false") = 2

\* C6 (as claimed): a fill on the search box with value v that returns
\* success leaves the input holding v and visible.
IsSearchFill(a) == ~IsNullAction(a) /\ a.action = "fill" /\ a.selector = SearchSel

C6_FillHoldsValue ==
  (Done /\ IsSearchFill(xAction) /\ Returned(Success)) =>
    xPage.inputValue = xAction.value /\ xPage.expanded

\* C7 (as claimed): for an action whose kind is not click / fill / press /
\* wait, or whose selector is empty or missing, the only target acted on is
\* a click of the search header, whatever other fields the action carries.
OnlyHeaderClicked ==
  \A i \in 1..Len(xTrace) :
    ActsOnTarget(xTrace[i]) =>
      xTrace[i].sel = HeaderSel /\ xTrace[i].op \in {"waitForSelector", "click"}

C7_SafeDefault == (Done /\ IsMalformed(xAction)) => OnlyHeaderClicked

\* C7 (amended): ... for such an action that carries none of searchText,
\* inputFields, search_query and is not checkbox-like (no 'checkbox' in its
\* selector, type other than 'checkbox'), the only target acted on is a
\* click of the search header.
C7_SafeDefaultWithoutSearchOrCheckbox ==
  (Done /\ IsMalformed(xAction) /\ ~CarriesSearchFields(xAction) /\ ~IsCheckboxLike(xAction))
    => OnlyHeaderClicked

\* an unknown kind on a button: the button is left alone, the header clicked
C7_Witness ==
  /\ Done /\ xAction = Act("hover", ButtonSel)
  /\ Returned(Success)
  /\ \E i \in 1..Len(xTrace) :
       xTrace[i].op = "click" /\ xTrace[i].sel = HeaderSel /\ xTrace[i].out = "ok"

\* C8 (as claimed): for a checkbox-like target the three patterns are tried
\* in order, only the first that resolves is clicked and the call succeeds;
\* the failure 'No matching checkbox found' is returned exactly when none of
\* the three resolves.
IsQuery(e) == e.op = "$"
IsElementClick(e) == e.op = "elementClick"
Queries == SelectSeq(xTrace, IsQuery)
ElementClicks == SelectSeq(xTrace, IsElementClick)
FirstBox == CHOOSE i \in xPage.boxes : \A j \in xPage.boxes : i <= j

PatternsInOrder ==
  /\ Len(Queries) <= Len(CheckboxSelectors)
  /\ \A k \in 1..Len(Queries) : Queries[k].sel = CheckboxSelectors[k]
  /\ \A k \in 1..(Len(Queries) - 1) : Queries[k].out = "false"
  /\ Len(ElementClicks) <= 1
  /\ Len(ElementClicks) = 1 =>
       /\ xPage.boxes # {}
       /\ ElementClicks[1].sel = CheckboxSelectors[FirstBox]
       /\ Queries[Len(Queries)].out = "true"
  /\ Returned(Failure(NoCheckboxMsg)) => xPage.boxes = {}
  /\ NoOpThrew =>
       IF xPage.boxes = {}
         THEN Returned(Failure(NoCheckboxMsg)) /\ Len(Queries) = Len(CheckboxSelectors)
         ELSE Returned(Success) /\ Len(ElementClicks) = 1 /\ Len(Queries) = FirstBox

TakenBySearchBranch(a) ==
  /\ NormOf(a).selector = SearchSel
  /\ \/ NormOf(a).validAction = "fill"
     \/ NormOf(a).validAction = "press" /\ a.key = "Enter"

ExceptionOccurred ==
  xResult.kind = "threw" \/ xResult.caught # NoExc \/ ~NoOpThrew
IsScreenshot(e) == e.op = "screenshot"
AfterScreenshot ==
  IF CountOps(IsScreenshot) = 0 THEN <<>>
  ELSE LET at == CHOOSE i \in 1..Len(xTrace) : xTrace[i].op = "screenshot"
       IN  SubSeq(xTrace, at + 1, Len(xTrace))
IsHeaderClick(e) == e.op = "click" /\ e.sel = HeaderSel
RetryEligible ==
  /\ ~IsNullAction(xAction)
  /\ NormOf(xAction).selector = SearchSel
  /\ xResult.caught # NoExc /\ IncludesHidden(xResult.caught)

C9_RetryOnlyForHiddenSearch ==
  (Done /\ ExceptionOccurred) =>
    IF RetryEligible
      THEN Len(SelectSeq(AfterScreenshot, IsHeaderClick)) <= 1
      ELSE ReturnedFailure /\ AfterScreenshot = <<>>

(***************************************************************************)
(* Claims on the orchestration loop                                        *)
(***************************************************************************)
\* C10 (as claimed): once 3 consecutive failures are counted no further
\* decision-function action is executed (the counter never exceeds 3), the
\* fallback automateResquared is then attempted exactly once, and it is
\* attempted in no other case.
C10_FallbackAfterThreeFailures ==
  /\ consecutiveFailures <= FailureLimit
  /\ pc = "execute" => consecutiveFailures < FailureLimit
  /\ fallbackCalls <= 1
  /\ fallbackCalls = 1 => consecutiveFailures >= FailureLimit
  /\ (pc = "done" /\ response.kind = "ok") =>
       (fallbackCalls = 1 <=> consecutiveFailures >= FailureLimit)

\* C11 (as claimed): every failure response of a campaign run carries the
\* step log accumulated so far, not only an error message.
C11_FailureCarriesStepLog ==
  response.kind = "error" =>
    "details" \in DOMAIN response /\ response.details = automationSteps

(***************************************************************************)
(* Claims on the handlers' request validation                              *)
(***************************************************************************)
\* C12 (as claimed): a request missing any of prompt, URL, username or
\* password is rejected with an error response before any browser,
\* remote-session or decision-function operation is started, in every
\* /run-campaign handler.
C12_RejectedBeforeAnyWork ==
  MissingFields(rqBody) =>
    /\ rqStarted = <<>>
    /\ rqResponse # NoResult => rqResponse = BadRequest

(***************************************************************************)
(* Claims on concurrent runs                                               *)
(***************************************************************************)
\* C13 (as claimed): two concurrent runs share no mutable resource; the
\* screenshot a run uploads for its decision function is the one it
\* captured from its own page, under every interleaving.
C13_UploadsOwnCapture ==
  \A r \in Runs :
    (runPc[r] = "asked" /\ uploaded[r] # NoRun) => uploaded[r] = r

(***************************************************************************)
(* Claims on getAssistantResponse                                          *)
(***************************************************************************)
\* C14 (as claimed): polling for the decision function's answer returns
\* control to the loop after finitely many polls, for every sequence of run
\* statuses the upstream can report.
C14_PollingReturns == <>(pollResult # "pending")

(***************************************************************************)
(* Claims on the snapshot builder                                          *)
(***************************************************************************)
HasSnapshot == snapshot # NoSnapshot
IsElementRecord(rec) == "children" \in DOMAIN rec
OmittedNodes(d, snap) == {n \in AllNodes(d) : \A h \in DOMAIN snap.nodeOf : snap.nodeOf[h].node # n}

\* C1: after buildAdvancedDomSnapshot returns, every handle listed in the
\* children of any element record is a key of the returned map.
C1_NoDanglingChildren ==
  HasSnapshot =>
    \A h \in DOMAIN snapshot.map :
      IsElementRecord(snapshot.map[h]) =>
        \A i \in 1..Len(snapshot.map[h].children) :
          snapshot.map[h].children[i] \in DOMAIN snapshot.map

\* a snapshot of a document nested beyond the depth ceiling: nodes were
\* omitted and the recorded elements list children
C1_Witness ==
  /\ HasSnapshot
  /\ snapshot = buildAdvancedDomSnapshot(doc, DefaultArgs)
  /\ \E n \in OmittedNodes(doc, snapshot) : DepthOf(doc, n) > MaxDepth
  /\ \E h \in DOMAIN snapshot.map :
       /\ IsElementRecord(snapshot.map[h])
       /\ Len(snapshot.map[h].children) >= 1

\* C2 (as claimed): a handle issued by the previous snapshot is rejected by
\* the next one, it never resolves to a record there.
C2_StaleHandleRejected ==
  (HasSnapshot /\ prevSnapshot # NoSnapshot) =>
    \A h \in DOMAIN prevSnapshot.map : Resolve(snapshot, h) = [undefined |-> TRUE]

\* C15: in every snapshot with k elements carrying a highlightIndex the
\* indices are exactly 0..k-1, without gap or repeat, and of two such
\* elements the one earlier in document pre-order has the smaller index.
Highlighted == {h \in DOMAIN snapshot.map : "highlightIndex" \in DOMAIN snapshot.map[h]}

C15_HighlightIndices ==
  /\ {snapshot.map[h].highlightIndex : h \in Highlighted} = 0..(Cardinality(Highlighted) - 1)
  /\ \A a, b \in Highlighted :
       snapshot.nodeOf[a].node < snapshot.nodeOf[b].node =>
         snapshot.map[a].highlightIndex < snapshot.map[b].highlightIndex

\* an interactive element inside an interactive element: the inner one is
\* stored first (smaller handle number) and carries the larger index, and a
\* hidden button between them takes no index
C15_Witness ==
  /\ Cardinality(Highlighted) >= 2
  /\ \E a, b \in Highlighted :
       a.n > b.n /\ snapshot.map[a].highlightIndex < snapshot.map[b].highlightIndex
  /\ \E h \in DOMAIN snapshot.map \ Highlighted : snapshot.nodeOf[h].tmpl = HiddenButtonT

\* C16: an element that fails the visibility test (zero rendered width or
\* height, visibility hidden, display none, opacity "0") is still recorded
\* but never has isInteractive = true nor a highlightIndex, whatever its
\* tag, role, click handler or tabindex.
FailsVisibilityTest(t) ==
  \/ t.offsetWidth = 0 \/ t.offsetHeight = 0
  \/ t.visibility = "hidden" \/ t.display = "none" \/ t.opacity = "0"

HandlesOf(node) == {h \in DOMAIN snapshot.nodeOf : snapshot.nodeOf[h].node = node}

C16_HiddenNeverInteractive ==
  snapshot # NoSnapshot =>
    \A node \in AllNodes(doc) :
      FailsVisibilityTest(NodeTmpl(doc, node)) =>
        /\ HandlesOf(node) # {}
        /\ \A h \in HandlesOf(node) :
             /\ ~snapshot.map[h].isVisible
             /\ "isInteractive" \in DOMAIN snapshot.map[h] => ~snapshot.map[h].isInteractive
             /\ "highlightIndex" \notin DOMAIN snapshot.map[h]

\* a button with a click handler that only its opacity hides
C16_Witness ==
  /\ snapshot # NoSnapshot
  /\ doc.tmpl[1] = Elem("BUTTON", "", [role |-> "button"], 100, 20, "visible", "block", "0", TRUE)
  /\ \E h \in HandlesOf(1) : ~snapshot.map[h].isVisible

\* C17: the snapshot contains no record for a script, style or noscript
\* element, nor for the element carrying the id of the status container the
\* tool injects into the page, nor for any descendant of one of these nodes.
ExcludedNode(t) ==
  /\ t.nodeType = "ELEMENT"
  /\ \/ ToLowerCase(t.tagName) \in {"script", "style", "noscript"}
     \/ t.id = AgentStatusId

RECURSIVE IsSelfOrAncestor(_, _, _)
IsSelfOrAncestor(d, a, node) ==
  IF node = a THEN TRUE
  ELSE IF node = 0 THEN FALSE
  ELSE IsSelfOrAncestor(d, a, ParentNode(d, node))

C17_ExcludedNodesAbsent ==
  snapshot # NoSnapshot =>
    \A h \in DOMAIN snapshot.nodeOf :
      \A a \in AllNodes(doc) :
        IsSelfOrAncestor(doc, a, snapshot.nodeOf[h].node) => ~ExcludedNode(NodeTmpl(doc, a))

\* C18: with the body at depth 0, no node lying deeper than depth 20 has a
\* record in the map or appears in a children list, and the omitted nodes
\* leave no placeholder: the elements recorded at depth 20 have empty children.
RecordedDepth(h) == DepthOf(doc, snapshot.nodeOf[h].node)

C18_DepthBound ==
  HasSnapshot =>
    /\ \A h \in DOMAIN snapshot.nodeOf : RecordedDepth(h) <= MaxDepth
    /\ \A h \in DOMAIN snapshot.map :
         IsElementRecord(snapshot.map[h]) =>
           /\ \A i \in 1..Len(snapshot.map[h].children) :
                /\ snapshot.map[h].children[i] \in DOMAIN snapshot.nodeOf
                /\ RecordedDepth(snapshot.map[h].children[i]) <= MaxDepth
           /\ RecordedDepth(h) = MaxDepth => snapshot.map[h].children = <<>>

\* an element recorded at depth 20 whose document node has a child that
\* would have been kept
C18_Witness ==
  /\ HasSnapshot
  /\ \E h \in DOMAIN snapshot.nodeOf :
       /\ IsElementRecord(snapshot.map[h])
       /\ RecordedDepth(h) = MaxDepth
       /\ snapshot.map[h].children = <<>>
       /\ LET kids == ChildNodes(doc, snapshot.nodeOf[h].node)
          IN \E i \in 1..Len(kids) : NodeTmpl(doc, kids[i]) \in {WrapT, DivT, ButtonT, WordT}

\* C19: whenever document.body exists, the returned rootId is a key of the
\* map and is the handle of the body element's record; for a body with no
\* kept children that record has children = [].
KeptBelowBody ==
  {h \in DOMAIN snapshot.nodeOf :
     snapshot.nodeOf[h].node # 0 /\ ParentNode(doc, snapshot.nodeOf[h].node) = 0}

C19_RootIsBody ==
  (doc.hasBody /\ HasSnapshot) =>
    /\ snapshot.rootId \in DOMAIN snapshot.map
    /\ snapshot.nodeOf[snapshot.rootId].node = 0
    /\ snapshot.map[snapshot.rootId].tagName = "body"
    /\ KeptBelowBody = {} => snapshot.map[snapshot.rootId].children = <<>>

\* C20: when document.body is unavailable the builder returns a snapshot
\* whose map holds exactly one entry, a synthetic error record that is the
\* root and has no children.
C20_NoBodySnapshot ==
  (~doc.hasBody /\ HasSnapshot) =>
    /\ DOMAIN snapshot.map = {snapshot.rootId}
    /\ snapshot.rootId = Handle("root", 0)
    /\ DOMAIN snapshot.map[snapshot.rootId] = {"error"}
    /\ snapshot.map[snapshot.rootId].error = "No document.body available"

C20_Witness ==
  /\ ~doc.hasBody
  /\ HasSnapshot
  /\ prevSnapshot = NoSnapshot
  /\ "children" \notin DOMAIN snapshot.map[Handle("root", 0)]

\* C21: when metrics collection is enabled, processedNodes equals the number
\* of records kept in the map, skippedNodes the number of nodes dropped by an
\* exclusion rule or the depth cutoff, and totalNodes the number of nodes
\* visited.
HasMetrics == HasSnapshot /\ "perfMetrics" \in DOMAIN snapshot

C21_MetricsCountTraversal ==
  (HasMetrics /\ doc.hasBody) =>
    LET m == snapshot.perfMetrics.nodeMetrics
        kept == Cardinality(DOMAIN snapshot.map)
        dropped == Cardinality(OmittedNodes(doc, snapshot))
    IN /\ m.processedNodes = kept
       /\ m.skippedNodes = dropped
       /\ m.totalNodes >= kept

\* C22: every action chosen by the assistant is executed against a page
\* observation taken in the same cycle, after the previous action
\* completed; no observation is used for more than one executed action.
C22_FreshObservationPerAction ==
  cycle.pc \notin {"idle"} =>
    /\ \A i \in 1..Len(cycle.executed) :
         /\ cycle.executed[i].obs \in 1..Len(cycle.observations)
         /\ cycle.observations[cycle.executed[i].obs].after = i - 1
         /\ cycle.observations[cycle.executed[i].obs].cycle = cycle.executed[i].cycle
    /\ \A i, j \in 1..Len(cycle.executed) :
         i # j => cycle.executed[i].obs # cycle.executed[j].obs

\* two actions executed, with an observation in between that led to none
C22_Witness ==
  /\ cycle.pc = "top"
  /\ Len(cycle.executed) = 2
  /\ Len(cycle.observations) = 3
  /\ cycle.executed[2].obs = 3

\* C23: for a click or fill the executor tries the candidates of its list in
\* list order, stops at the first candidate on which the operation
\* succeeds, and reports failure only when every candidate and the final
\* generic scan have failed.
CandidateOps == SelectSeq(gx.trace, LAMBDA o : o.candidate # 0)
ScanOps == SelectSeq(gx.trace, LAMBDA o : o.op = "scan")

C23_FirstCandidateWins ==
  gx.pc = "done" =>
    /\ \A i \in 1..Len(CandidateOps) :
         /\ CandidateOps[i].candidate = i
         /\ CandidateOps[i].ok => i = Len(CandidateOps) /\ gx.result.success /\ ScanOps = <<>>
    /\ ~gx.result.success =>
         /\ {CandidateOps[i].candidate : i \in 1..Len(CandidateOps)} = Candidates(gx.action.action)
         /\ \A i \in 1..Len(CandidateOps) : ~CandidateOps[i].ok
         /\ Len(ScanOps) = 1 /\ ~ScanOps[1].ok

\* C24: on a shutdown signal a stop is attempted for every remote browser
\* session that is running at that moment before the process exits, even
\* when stopping one of them fails.
RunningSessions == {k \in DOMAIN shut.sessions : shut.sessions[k] = "running"}

C24_EveryRunningSessionAttempted ==
  shut.pc = "exited" => RunningSessions \subseteq shut.attempted

\* C25: ensureUrlProtocol maps a URL made of a scheme prefix duplicated once
\* (s1://s2://rest, s1 and s2 in {http, https}) to a single scheme prefix
\* followed by rest, and a URL u without scheme prefix to "https://" + u.
Schemes == {Http, Https}
\* the argument is put together from hosts only
HasNoScheme(parts) == \A k \in 1..Len(parts) : parts[k] = Host

C25_SingleSchemePrefix ==
  urlCall.pc = "returned" =>
    /\ (/\ Len(urlCall.parts) = 3
        /\ urlCall.parts[1] \in Schemes /\ urlCall.parts[2] \in Schemes
        /\ urlCall.parts[3] = Host)
         => \E sch \in Schemes : urlCall.returned = sch \o Host
    /\ HasNoScheme(urlCall.parts) => urlCall.returned = Https \o urlCall.url

\* C26: for every fill and every press whose effective key is Enter (given
\* or defaulted) on the search box, the first page operation of
\* executeAction is the click on the container header, and no fill or key
\* press goes to the input before a wait for the input's visibility has
\* succeeded and the input has been clicked.
IsSearchFillOrEnter(a) ==
  /\ ~IsNullAction(a)
  /\ a.selector = SearchSel
  /\ \/ a.action = "fill"
     \/ a.action = "press" /\ a.key \in {"Enter", Undef}

SentToInput(e) == e.op \in {"fill", "press"} /\ e.sel = SearchSel

C26_SearchProtocolOrder ==
  (Done /\ IsSearchFillOrEnter(xAction)) =>
    /\ xTrace # <<>> /\ xTrace[1].op = "click" /\ xTrace[1].sel = HeaderSel
    /\ \A i \in 1..Len(xTrace) :
         SentToInput(xTrace[i]) =>
           \E j, k \in 1..(i - 1) :
             /\ j < k
             /\ xTrace[j].op = "waitForSelector" /\ xTrace[j].sel = SearchSel
             /\ xTrace[j].out = "ok"
             /\ xTrace[k].op = "click" /\ xTrace[k].sel = SearchSel /\ xTrace[k].out = "ok"

\* C27: when the first verification of a press-Enter search sees neither
\* signal, the single retry repeats the full cycle: it clicks the container
\* header again, then clicks the input, then presses Enter, in that order.
IsVerification(e) == e.op = "raceIndicators"
FirstVerification == CHOOSE i \in 1..Len(xTrace) :
                       IsVerification(xTrace[i]) /\ \A j \in 1..(i - 1) : ~IsVerification(xTrace[j])

C27_RetryRepeatsFullCycle ==
  (/\ Done /\ IsSearchPressEnter(xAction) /\ NoOpThrew
   /\ \E i \in 1..Len(xTrace) : IsVerification(xTrace[i])
   /\ xTrace[FirstVerification].out = "false") =>
    \E h, c, e \in (FirstVerification + 1)..Len(xTrace) :
      /\ h < c /\ c < e
      /\ xTrace[h].op = "click" /\ xTrace[h].sel = HeaderSel
      /\ xTrace[c].op = "click" /\ xTrace[c].sel = SearchSel
      /\ IsEnterDispatched(xTrace[e])

\* C28: the verification after a search reports completion whenever the
\* results signal or the no-results signal becomes visible within its own
\* wait timeout, under every ordering of the two waits' success, timeout
\* and failure events.
C28_RaceReportsAnySignal ==
  (race.pc = "returned" /\ \E w \in 1..Len(Waits) : race.fate[w] = "found") =>
    race.returned = "true"

\* C29: for a click action the click on the target is issued only after the
\* wait for the target's visibility has succeeded; if the target does not
\* become visible the outcome is failure and no click was issued on the
\* target, for every target locator including the search box.
IsClickAction(a) == ~IsNullAction(a) /\ a.action = "click" /\ Truthy(a.selector)

ClickOnTarget(e) == e.op \in {"click", "elementClick"} /\ e.sel = xAction.selector
WaitedFor(e) == e.op = "waitForSelector" /\ e.sel = xAction.selector /\ e.out = "ok"

C29_ClickOnlyAfterVisible ==
  (Done /\ IsClickAction(xAction)) =>
    /\ \A i \in 1..Len(xTrace) :
         ClickOnTarget(xTrace[i]) => \E j \in 1..(i - 1) : WaitedFor(xTrace[j])
    \* failure: a returned failure or the exception of C3, never a success
    /\ (\A j \in 1..Len(xTrace) : ~WaitedFor(xTrace[j])) => ~Returned(Success)

\* C30: during a snapshot build every handle is written to the map exactly
\* once, an element's record is inserted only after the records of all its
\* kept descendants, so the counter in an element's handle is strictly
\* greater than the counter of every handle in its subtree; the counters of
\* all handles of one snapshot are pairwise distinct across both node kinds.
C30_PostOrderHandles ==
  HasSnapshot =>
    /\ \A a, b \in DOMAIN snapshot.map : a # b => a.n # b.n
    /\ {h.n : h \in DOMAIN snapshot.map} = 0..(Cardinality(DOMAIN snapshot.map) - 1)
    /\ \A a, b \in DOMAIN snapshot.nodeOf :
         /\ a # b => snapshot.nodeOf[a].node # snapshot.nodeOf[b].node
         /\ (a # b /\ IsSelfOrAncestor(doc, snapshot.nodeOf[a].node, snapshot.nodeOf[b].node))
              => b.n < a.n
    /\ \A h \in DOMAIN snapshot.map :
         IsElementRecord(snapshot.map[h]) =>
           \A i \in 1..Len(snapshot.map[h].children) : snapshot.map[h].children[i].n < h.n

\* an element below body that holds a text and is followed by another element
C30_Witness ==
  /\ HasSnapshot
  /\ \E t, e, f \in DOMAIN snapshot.nodeOf :
       /\ t.kind = "text" /\ e.kind = "element" /\ f.kind = "element"
       /\ snapshot.nodeOf[e].node # 0 /\ snapshot.nodeOf[f].node # 0
       /\ ParentNode(doc, snapshot.nodeOf[t].node) = snapshot.nodeOf[e].node
       /\ t.n < e.n /\ e.n < f.n /\ f.n < snapshot.rootId.n

(***************************************************************************)
(* SpecAnswer: the second half of an iteration of the main loop, from the  *)
(* text getAssistantResponse returned to the recorded step: safeJsonParse, *)
(* the multi-step rewriting, executeAction, the record and the counters.   *)
(***************************************************************************)
MaxAnswers == 2  \* answers of the decision function one run receives

TextComplete == "COMPLETE"
TextNull == "null"
TextNumber == "42"
TextProse == "Click {the first button}"
TextClick == "{\"action\":\"click\",\"selector\":\"button\"}"
TextWrapped == "Next step: {\"action\":\"click\",\"selector\":\"button\"}"
TextUnknown == "{\"status\":\"done\"}"
TextFields == "{\"inputFields\":{}}"
TextMulti == "{\"action\":\"createList\",\"steps\":[{\"actionType\":\"pressEnter\",\"selector\":\"input[placeholder=\\\"Search\\\"]\"}]}"
TextMultiDescribed == "{\"action\":\"createList\",\"steps\":[{\"actionType\":\"click\",\"description\":\"Click the 'button'\"}]}"
TextMultiEmpty == "{\"action\":\"createList\",\"steps\":[]}"
AnswerTexts ==
  {TextComplete, TextNull, TextNumber, TextProse, TextClick, TextWrapped, TextUnknown,
   TextFields, TextMulti, TextMultiDescribed, TextMultiEmpty}

\* text.match(/\{[\s\S]*\}/): the first "{" up to the last "}", or null;
\* tabulated over the texts in use
MatchBraces(text) ==
  IF text \in {TextComplete, TextNull, TextNumber} THEN Null
  ELSE IF text = TextProse THEN "{the first button}"
  ELSE IF text = TextWrapped THEN TextClick
  ELSE text

\* a parsed value: the object's properties the loop and executeAction read
\* (a number has none), and its steps property
Parsed(obj, steps) == [obj |-> obj, steps |-> steps]
FirstStep(kind, sel, descr) == [actionType |-> kind, selector |-> sel, description |-> descr]

\* JSON.parse, tabulated over the strings handed to it
JSONparse(text) ==
  IF text = TextNull THEN [threw |-> FALSE, value |-> Parsed(NullAction, NoFields)]
  ELSE IF text = TextNumber THEN [threw |-> FALSE, value |-> Parsed(BaseAction, NoFields)]
  ELSE IF text = TextClick
    THEN [threw |-> FALSE, value |-> Parsed(Act("click", ButtonSel), NoFields)]
  ELSE IF text = TextUnknown THEN [threw |-> FALSE, value |-> Parsed(BaseAction, NoFields)]
  ELSE IF text = TextFields
    THEN [threw |-> FALSE,
          value |-> Parsed([BaseAction EXCEPT !.inputFields = NotAnArray], NoFields)]
  ELSE IF text = TextMulti
    THEN [threw |-> FALSE,
          value |-> Parsed(Act("createList", Undef),
                           FieldArray(<<FirstStep("pressEnter", SearchSel, Undef)>>))]
  ELSE IF text = TextMultiDescribed
    THEN [threw |-> FALSE,
          value |-> Parsed(Act("createList", Undef),
                           FieldArray(<<FirstStep("click", Undef, "Click the 'button'")>>))]
  ELSE IF text = TextMultiEmpty
    THEN [threw |-> FALSE, value |-> Parsed(Act("createList", Undef), FieldArray(<<>>))]
  ELSE [threw |-> TRUE, value |-> Parsed(NullAction, NoFields)]

\* { action: "click", selector: "button", description: "Default action ..." }
DefaultAction == Parsed(Act("click", ButtonSel), NoFields)

safeJsonParse(text) ==
  LET jsonMatch == MatchBraces(text)
      parsed == JSONparse(IF jsonMatch # Null THEN jsonMatch ELSE text)
  IN IF parsed.threw THEN DefaultAction ELSE parsed.value

\* firstStep.description.split(' ').pop().replace(/['"]/g, ''), tabulated
LastWordUnquoted(descr) == IF descr = "Click the 'button'" THEN "button" ELSE descr

\* "Handle multi-step responses": the action after the rewriting; threw when
\* a property is read on null or undefined
MultiStepRewrite(p) ==
  IF IsNullAction(p.obj) THEN [threw |-> TRUE, action |-> p.obj]
  ELSE IF p.obj.action = "createList" /\ p.steps.kind # "undefined"
    THEN IF p.steps.items = <<>> THEN [threw |-> TRUE, action |-> p.obj]
         ELSE LET firstStep == p.steps.items[1]
              IN IF ~Truthy(firstStep.selector) /\ firstStep.description = Undef
                   THEN [threw |-> TRUE, action |-> p.obj]
                   ELSE [threw |-> FALSE,
                         action |->
                           [p.obj EXCEPT
                              !.action = IF firstStep.actionType = "pressEnter"
                                           THEN "press" ELSE firstStep.actionType,
                              !.selector = IF Truthy(firstStep.selector)
                                             THEN firstStep.selector
                                             ELSE LastWordUnquoted(firstStep.description),
                              !.key = IF firstStep.actionType = "pressEnter"
                                        THEN "Enter" ELSE Undef]]
  ELSE [threw |-> FALSE, action |-> p.obj]

NoText == "(none)"
Unparsed == Parsed(NullAction, NoFields)

InitAnswer ==
  /\ ans \in {[pc |-> "loop", currentStep |-> step, consecutiveFailures |-> fails,
               asked |-> 0, text |-> NoText, parsed |-> Unparsed, action |-> NullAction,
               executed |-> <<>>, log |-> <<>>, completed |-> FALSE, error |-> "none"] :
                step \in {SpecialStep + 1, StepLimit - 1}, fails \in {0, FailureLimit - 1}}
  /\ IdleExcept("answer")

notAnswerVars == <<snapVars, execVars, loopVars, reqVars, runVars, pollVars, cycle, gx, shut, urlCall, race, iter, fin, job, logrun>>

\* while (currentStep < 20 && consecutiveFailures < 3)
AnswerLoopTest ==
  /\ ans.pc = "loop"
  /\ IF ans.currentStep < StepLimit /\ ans.consecutiveFailures < FailureLimit
       THEN /\ ans.asked < MaxAnswers
            /\ ans' = [ans EXCEPT !.pc = "ask", !.asked = @ + 1]
       ELSE ans' = [ans EXCEPT !.pc = "done"]
  /\ UNCHANGED notAnswerVars

\* const assistantContent = await getAssistantResponse(thread, run):
\* a text, or nothing (consecutiveFailures++; continue)
GetAnswer ==
  /\ ans.pc = "ask"
  /\ \/ \E text \in AnswerTexts :
          ans' = [ans EXCEPT !.pc = "parse", !.text = text,
                             !.completed = @ \/ text = TextComplete]
     \/ ans' = [ans EXCEPT !.pc = "loop", !.text = NoText,
                           !.consecutiveFailures = @ + 1]
  /\ UNCHANGED notAnswerVars

\* const action = safeJsonParse(assistantContent)
ParseAnswer ==
  /\ ans.pc = "parse"
  /\ ans' = [ans EXCEPT !.pc = "multi", !.parsed = safeJsonParse(ans.text)]
  /\ UNCHANGED notAnswerVars

\* if (action.action === 'createList' && action.steps) { ... }
MultiStep ==
  /\ ans.pc = "multi"
  /\ \E r \in {MultiStepRewrite(ans.parsed)} :
       ans' = IF r.threw
                THEN [ans EXCEPT !.pc = "done", !.error = "TypeError"]
                ELSE [ans EXCEPT !.pc = "execute", !.action = r.action]
  /\ UNCHANGED notAnswerVars

\* const result = await executeAction(page, action); the record; the counters.
\* The call returns success or failure, or throws: a TypeError of its
\* normalization, or the rejection of the screenshot in its catch block
ExecuteAnswer ==
  /\ ans.pc = "execute"
  /\ \E n \in {Normalize(ans.action)} :
       IF n.threw
         THEN ans' = [ans EXCEPT !.pc = "done", !.error = "TypeError"]
         ELSE \E outcome \in {"success", "failure", "rejected"} :
                ans' =
                  IF outcome = "rejected"
                    THEN [ans EXCEPT !.pc = "done", !.error = "rejected",
                                     !.executed = Append(@, [kind |-> n.validAction,
                                                             selector |-> n.selector])]
                    ELSE [ans EXCEPT
                            !.pc = "loop",
                            !.executed = Append(@, [kind |-> n.validAction,
                                                    selector |-> n.selector]),
                            !.log = Append(@, StepRecord(ans.currentStep,
                                                         outcome = "success")),
                            !.consecutiveFailures = IF outcome = "success" THEN 0 ELSE @ + 1,
                            !.currentStep = IF outcome = "success" THEN @ + 1 ELSE @]
  /\ UNCHANGED notAnswerVars

NextAnswer == AnswerLoopTest \/ GetAnswer \/ ParseAnswer \/ MultiStep \/ ExecuteAnswer

SpecAnswer == InitAnswer /\ [][NextAnswer]_vars

\* the texts the claim names: prose that is not JSON, JSON that is not an
\* object, objects of a shape executeAction does not know
MalformedTexts == {TextProse, TextNull, TextNumber, TextUnknown, TextFields}

\* C31 (as claimed): for every text the decision function can return that is
\* not a well-formed action, the loop recovers by normalization: the answer
\* does not abort the run, it reaches executeAction, and unless a page
\* operation's rejection escapes that call the cycle ends with a recorded
\* step outcome.
C31_MalformedAnswerRecovered ==
  [][(ans.text \in MalformedTexts /\ ans.pc \in {"multi", "execute"}) =>
       /\ ans.pc = "multi" => ans'.pc = "execute"
       /\ (ans.pc = "execute" /\ ans'.error # "rejected") =>
            (ans'.pc = "loop" /\ Len(ans'.log) = Len(ans.log) + 1)]_vars

\* C34 (as claimed): once the decision function has answered "COMPLETE", no
\* page action is executed for that answer and none later in the run.
C34_CompleteStopsActions ==
  [][ans.completed => ans'.executed = ans.executed]_vars

\* C32 (as claimed): in one call of executeAction for a press-Enter action on
\* the search box, under every combination of failing page operations, error
\* classes and verification outcomes, Enter is dispatched to the input at
\* most twice.
C32_EnterAtMostTwice ==
  (Done /\ IsSearchPressEnter(xAction)) => CountOps(IsEnterDispatched) <= 2

IsWellFormed(a) ==
  ~IsNullAction(a) /\ Truthy(a.selector) /\ a.action \in {"click", "fill", "press"}

\* a page operation of the action's kind (a click on an element handle is a click)
OfKind(kind, e) == e.op = kind \/ (kind = "click" /\ e.op = "elementClick")

\* C33 (as claimed): when executeAction returns success for a well-formed
\* action of kind click, fill or press, at least one page operation of that
\* kind was issued during the call.
C33_SuccessMeansKindIssued ==
  (Done /\ IsWellFormed(xAction) /\ Returned(Success)) =>
    \E i \in 1..Len(xTrace) : OfKind(xAction.action, xTrace[i])

(***************************************************************************)
(* SpecIter: the counters of the main loop of the two Playwright handlers, *)
(* every awaited operation returning.  One iteration passes the page       *)
(* validation (part_001 only), the special case of step 3, the question to *)
(* the decision function and executeAction.                                *)
(***************************************************************************)
MaxIterations == 55  \* passes of the loop a run is followed for
\* 17 steps after the login, each reached after at most 2 failing iterations: 51
IterationLimit == (StepLimit - LoginSteps) * FailureLimit

IterContinues(c) == c.currentStep < StepLimit /\ c.consecutiveFailures < FailureLimit

\* consecutiveFailures++
Failed(c) == [c EXCEPT !.consecutiveFailures = @ + 1]
\* the special case found the search section: currentStep++; continue
Advanced(c) == [c EXCEPT !.currentStep = @ + 1]

\* faulty variant: a success resets the failures and keeps the step
SucceededKeepsStep(c) == [c EXCEPT !.consecutiveFailures = 0]

\* if (result.success) { consecutiveFailures = 0; currentStep++; ... }
Succeeded(c) == [c EXCEPT !.consecutiveFailures = 0, !.currentStep = @ + 1]

InitIter ==
  /\ iter \in {[impl |-> i, pc |-> "top", currentStep |-> LoginSteps,
                consecutiveFailures |-> 0, iterations |-> 0,
                stepAtTop |-> LoginSteps, failuresAtTop |-> 0] : i \in CycleImpls}
  /\ IdleExcept("iter")

notIterVars == <<snapVars, execVars, loopVars, reqVars, runVars, pollVars, cycle, gx, shut, urlCall, race, ans, fin, job, logrun>>

\* while (currentStep < 20 && consecutiveFailures < 3)
IterTop ==
  /\ iter.pc = "top"
  /\ IF IterContinues(iter)
       THEN /\ iter.iterations < MaxIterations
            /\ iter' = [iter EXCEPT !.pc = IF iter.impl = "playwright" THEN "validate"
                                           ELSE "special",
                                    !.iterations = @ + 1,
                                    !.stepAtTop = iter.currentStep,
                                    !.failuresAtTop = iter.consecutiveFailures]
       ELSE iter' = [iter EXCEPT !.pc = "done"]
  /\ UNCHANGED notIterVars

\* if (!(await validatePageState(page))) { consecutiveFailures++; continue; }
IterValidate ==
  /\ iter.pc = "validate"
  /\ \E valid \in BOOLEAN :
       iter' = IF valid THEN [iter EXCEPT !.pc = "special"]
               ELSE [Failed(iter) EXCEPT !.pc = "top"]
  /\ UNCHANGED notIterVars

\* if (currentStep === 3): the search section is reached (currentStep++;
\* continue) or not: part_001 counts a failure in its catch, grok.js does
\* not, and both go on with the rest of the iteration
IterSpecial ==
  /\ iter.pc = "special"
  /\ IF iter.currentStep # SpecialStep
       THEN iter' = [iter EXCEPT !.pc = "ask"]
       ELSE \E reached \in BOOLEAN :
              iter' = IF reached THEN [Advanced(iter) EXCEPT !.pc = "top"]
                      ELSE IF iter.impl = "playwright" THEN [Failed(iter) EXCEPT !.pc = "ask"]
                      ELSE [iter EXCEPT !.pc = "ask"]
  /\ UNCHANGED notIterVars

\* no message sent (grok.js) or no answer: consecutiveFailures++; continue
IterAsk ==
  /\ iter.pc = "ask"
  /\ \E answered \in BOOLEAN :
       iter' = IF answered THEN [iter EXCEPT !.pc = "execute"]
               ELSE [Failed(iter) EXCEPT !.pc = "top"]
  /\ UNCHANGED notIterVars

\* const result = await executeAction(page, action) and the counters
IterExecute ==
  /\ iter.pc = "execute"
  /\ \E success \in BOOLEAN :
       iter' = IF success THEN [Succeeded(iter) EXCEPT !.pc = "top"]
               ELSE [Failed(iter) EXCEPT !.pc = "top"]
  /\ UNCHANGED notIterVars

NextIter == IterTop \/ IterValidate \/ IterSpecial \/ IterAsk \/ IterExecute

SpecIter == InitIter /\ [][NextIter]_vars

\* every awaited operation returns: the handler goes on
SpecIterLive == SpecIter /\ WF_vars(NextIter)

\* C35: provided every awaited operation returns, the main loop terminates
\* after at most 51 iterations: every iteration increases the step counter
\* or the consecutive-failure counter, and the failure counter is reset only
\* when the step counter increases.
C35_LoopTerminatesWithin51 ==
  /\ [](/\ iter.iterations <= IterationLimit
        /\ (iter.pc \in {"top", "done"} /\ iter.iterations > 0) =>
             \/ iter.currentStep > iter.stepAtTop
             \/ iter.consecutiveFailures > iter.failuresAtTop)
  /\ [][iter'.consecutiveFailures < iter.consecutiveFailures =>
          iter'.currentStep > iter.currentStep]_vars
  /\ <>(iter.pc = "done")

\* a run of 51 iterations: two failures before each of the 17 steps
C35_Witness ==
  iter.pc = "done" /\ iter.iterations = IterationLimit /\ iter.currentStep = StepLimit

\* C36 (as claimed): every call of executeAction made during a run appends
\* exactly one record to the step log, in execution order; the step numbers
\* of the log never decrease, and two records carry the same step number
\* only if the earlier one has a failure outcome.
C36_OneRecordPerCall ==
  /\ Len(automationSteps) = executeCalls
  /\ \A i, j \in 1..Len(automationSteps) :
       i < j => /\ automationSteps[i].step <= automationSteps[j].step
                /\ automationSteps[i].step = automationSteps[j].step
                     => ~automationSteps[i].success

(***************************************************************************)
(* SpecClose: the try / catch / finally of the Playwright campaign handler *)
(* (part_001 and grok.js alike): the browser is connected, a context and a *)
(* page are created, the campaign runs, and the finally block closes what  *)
(* was created.                                                            *)
(***************************************************************************)
Resources == <<"page", "context", "browser">>
ResourceNames == {Resources[k] : k \in 1..Len(Resources)}

InitClose ==
  /\ fin \in {[impl |-> i, pc |-> "connect", held |-> {}, rejecting |-> r, closes |-> <<>>,
               response |-> "none"] : i \in CycleImpls, r \in SUBSET ResourceNames}
  /\ IdleExcept("fin")

notFinVars == <<snapVars, execVars, loopVars, reqVars, runVars, pollVars, cycle, gx, shut, urlCall, race, ans, iter, job, logrun>>

\* an awaited call of the try block rejects: the catch answers 500 and the
\* finally block follows
Caught(f) == [f EXCEPT !.pc = "closePage", !.response = "error"]

\* faulty variant: a rejected close leaves the finally block
CloseIfHeldUnguarded(f, name, next) ==
  IF name \in f.held
    THEN [f EXCEPT !.closes = Append(@, name),
                   !.pc = IF name \in f.rejecting THEN "exited" ELSE next]
    ELSE [f EXCEPT !.pc = next]

\* if (x) await x.close().catch(console.error): the close is attempted when
\* the variable is set, and its rejection is logged and swallowed
CloseIfHeld(f, name, next) ==
  IF name \in f.held
    THEN [f EXCEPT !.closes = Append(@, name), !.pc = next]
    ELSE [f EXCEPT !.pc = next]

\* browser = await chromium.connectOverCDP(...)
Connect ==
  /\ fin.pc = "connect"
  /\ \E ok \in BOOLEAN :
       fin' = IF ok THEN [fin EXCEPT !.pc = "newContext", !.held = @ \cup {"browser"}]
              ELSE Caught(fin)
  /\ UNCHANGED notFinVars

\* context = await browser.newContext(...)
NewContext ==
  /\ fin.pc = "newContext"
  /\ \E ok \in BOOLEAN :
       fin' = IF ok THEN [fin EXCEPT !.pc = "newPage", !.held = @ \cup {"context"}]
              ELSE Caught(fin)
  /\ UNCHANGED notFinVars

\* page = await context.newPage()
NewPage ==
  /\ fin.pc = "newPage"
  /\ \E ok \in BOOLEAN :
       fin' = IF ok THEN [fin EXCEPT !.pc = "campaign", !.held = @ \cup {"page"}]
              ELSE Caught(fin)
  /\ UNCHANGED notFinVars

\* navigation, login, main loop, fallback: the success response, the failure
\* response of grok.js after a failed fallback, or an exception
Campaign ==
  /\ fin.pc = "campaign"
  /\ \E end \in {"ok", "failed", "threw"} :
       /\ end = "failed" => fin.impl = "grok"
       /\ fin' = IF end = "threw" THEN Caught(fin)
                 ELSE [fin EXCEPT !.pc = "closePage",
                                  !.response = IF end = "ok" THEN "ok" ELSE "error"]
  /\ UNCHANGED notFinVars

\* if (page) await page.close().catch(console.error)
ClosePage ==
  /\ fin.pc = "closePage"
  /\ fin' = CloseIfHeld(fin, "page", "closeContext")
  /\ UNCHANGED notFinVars

\* if (context) await context.close().catch(console.error)
CloseContext ==
  /\ fin.pc = "closeContext"
  /\ fin' = CloseIfHeld(fin, "context", "closeBrowser")
  /\ UNCHANGED notFinVars

\* if (browser) await browser.close().catch(console.error)
CloseBrowser ==
  /\ fin.pc = "closeBrowser"
  /\ fin' = CloseIfHeld(fin, "browser", "exited")
  /\ UNCHANGED notFinVars

NextClose ==
  Connect \/ NewContext \/ NewPage \/ Campaign \/ ClosePage \/ CloseContext \/ CloseBrowser

SpecClose == InitClose /\ [][NextClose]_vars

\* C37 (as claimed): on every exit path of the handler after the browser was
\* connected, a close is attempted for the page, the context and the
\* browser, each exactly once and in that order, whatever closes fail.
C37_AllThreeClosed ==
  (fin.pc = "exited" /\ "browser" \in fin.held) => fin.closes = Resources

\* C37 (amended): on every exit path after the browser was connected, a
\* close is attempted exactly once for each of page, context and browser
\* that was created, in that order, whatever closes fail; a context or page
\* whose creation failed is not closed.
C37_CreatedOnesClosed ==
  (fin.pc = "exited" /\ "browser" \in fin.held) =>
    fin.closes = SelectSeq(Resources, LAMBDA name : name \in fin.held)

\* all three were created, the closes of page and context reject, and the
\* browser is closed all the same
C37_Witness ==
  /\ fin.pc = "exited" /\ fin.held = ResourceNames
  /\ {"page", "context"} \subseteq fin.rejecting
  /\ fin.closes = Resources

(***************************************************************************)
(* SpecJob: the remote-agent /run-campaign handler after its validation:   *)
(* startAndWait, the inspection of its result, and the catch block with    *)
(* the stop of the job.                                                    *)
(***************************************************************************)
\* how startAndWait ends: it rejects (before the service started a job, or
\* with the job started: a failure or timeout while waiting), or it
\* returns a result
JobFates ==
  {"rejected-unstarted", "rejected-started", "completed", "completed-login-failed",
   "completed-unable", "completed-no-data", "failed-with-error", "stopped"}

NoJob == "<null>"
JobId == "job-1"

\* the handler stands in part_001 and, word for word, in readme.md
JobImpls == {"part_001", "readme"}

InitJob ==
  /\ job \in {[impl |-> i, pc |-> "start", fate |-> f, stopRejects |-> r, started |-> FALSE,
               jobId |-> NoJob, stops |-> 0, log |-> <<>>, response |-> "none"] :
                i \in JobImpls, f \in JobFates, r \in BOOLEAN}
  /\ IdleExcept("job")

notJobVars == <<snapVars, execVars, loopVars, reqVars, runVars, pollVars, cycle, gx, shut, urlCall, race, ans, iter, fin, logrun>>

\* const result = await hbClient.beta.agents.browserUse.startAndWait({...});
\* jobId = result.jobId; logStep('Received job ID', { jobId })
StartAndWait ==
  /\ job.pc = "start"
  /\ job' = IF job.fate = "rejected-unstarted" THEN [job EXCEPT !.pc = "catch"]
            ELSE IF job.fate = "rejected-started"
              THEN [job EXCEPT !.pc = "catch", !.started = TRUE]
            ELSE [job EXCEPT !.pc = "inspect", !.started = TRUE, !.jobId = JobId,
                             !.log = Append(@, "Received job ID")]
  /\ UNCHANGED notJobVars

\* if (result.status === 'completed') { ... res.json({success: true, ...}) }
\* else throw; a final result naming a login or completion problem throws,
\* and so does reading result.data.steps when the result carries no data
Inspected(f) ==
  IF f.fate = "completed"
    THEN [f EXCEPT !.pc = "done", !.response = "ok",
                   !.log = Append(@, "Campaign completed successfully")]
    ELSE [f EXCEPT !.pc = "catch"]

InspectResult ==
  /\ job.pc = "inspect"
  /\ job' = Inspected(job)
  /\ UNCHANGED notJobVars

\* catch (error) { logStep('Error in campaign', ...); if (jobId) { ... } ... }
CatchError ==
  /\ job.pc = "catch"
  /\ job' = [job EXCEPT !.pc = IF job.jobId # NoJob THEN "stop" ELSE "respond",
                        !.log = Append(@, "Error in campaign")]
  /\ UNCHANGED notJobVars

\* try { await hbClient.beta.agents.browserUse.stop(jobId); logStep(...) }
\* catch (cleanupError) { logStep(...) }
StopJob ==
  /\ job.pc = "stop"
  /\ job' = [job EXCEPT !.stops = @ + 1, !.pc = "respond",
                        !.log = Append(@, IF job.stopRejects
                                            THEN "Error stopping browser session"
                                            ELSE "Stopped browser session")]
  /\ UNCHANGED notJobVars

\* return res.status(500).json({ success: false, error: ... })
RespondError ==
  /\ job.pc = "respond"
  /\ job' = [job EXCEPT !.pc = "done", !.response = "error"]
  /\ UNCHANGED notJobVars

NextJob == StartAndWait \/ InspectResult \/ CatchError \/ StopJob \/ RespondError

SpecJob == InitJob /\ [][NextJob]_vars

\* C38 (as claimed): for every request that ends in an error after the
\* remote browser job was started, including a startAndWait that fails or
\* times out, a stop of that job is attempted exactly once before the error
\* response is sent, also when the stop attempt fails; no stop is attempted
\* on a successful run.
C38_StopOnEveryError ==
  /\ (job.response = "error" /\ job.started) => job.stops = 1
  /\ job.response = "ok" => job.stops = 0
  /\ (job.pc = "done" /\ job.fate # "completed") => job.response = "error"

(***************************************************************************)
(* SpecLog: what the campaign handlers write to the log from the fields of *)
(* the request.  Two requests that differ in the password only are handled *)
(* side by side, with the same page and service behaviour, by the          *)
(* remote-agent handler or by a Playwright handler (part_001, grok.js).    *)
(***************************************************************************)
MaxPassword == 2  \* characters of a password

PasswordChars == {"p", "q"}
Passwords == UNION {[1..n -> PasswordChars] : n \in 1..MaxPassword}
Username == "user@example.com"
LogHandlers == {"agent", "playwright", "grok"}

\* console.log / logStep: a message and the data printed with it
Line(text, data) == [text |-> text, data |-> data]
NoData == [none |-> TRUE]

\* the loginSteps array of a request: fill email, fill password, click
LoginActions(password) ==
  <<[action |-> "fill", selector |-> "input[type=\"email\"], input[placeholder=\"Email\"]",
     value |-> <<Username>>, description |-> "Fill email field"],
    [action |-> "fill", selector |-> "input[type=\"password\"], input[placeholder=\"Password\"]",
     value |-> password, description |-> "Fill password field"],
    [action |-> "click", selector |-> "button[type=\"submit\"], button:has-text(\"Log in\")",
     value |-> <<>>, description |-> "Click login button"]>>

\* logStep(`Starting campaign`, { prompt, saasUrl, username: saasUsername,
\*                                passwordLength: saasPassword.length })
StartLines(password) ==
  <<Line("Starting campaign", [username |-> Username, passwordLength |-> Len(password)])>>

\* logStep('Error in campaign', { error, jobId, passwordLength })
ErrorLines(password) ==
  <<Line("Error in campaign", [passwordLength |-> Len(password)])>>

\* console.log(`\nLogin Step ${currentStep + 1}`);
\* console.log('Executing action:', action); and, after a failed step,
\* console.error('Login step failed:', result.error)
LoginLines(password, step, ok) ==
  <<Line("Login Step", [number |-> step + 1]),
    Line("Executing action:", LoginActions(password)[step + 1])>>
  \o (IF ok THEN <<>> ELSE <<Line("Login step failed:", NoData)>>)

InitLog ==
  /\ logrun \in {[handler |-> h, pc |-> "start", step |-> 0, passwords |-> <<p, q>>,
                  lines |-> <<(<<>>), (<<>>)>>] :
                   h \in LogHandlers, p \in Passwords, q \in Passwords}
  /\ IdleExcept("log")

notLogVars == <<snapVars, execVars, loopVars, reqVars, runVars, pollVars, cycle, gx, shut, urlCall, race, ans, iter, fin, job>>

\* both requests write what Lines gives for their own password
Written(r, Lines(_)) ==
  [r EXCEPT !.lines = [k \in 1..2 |-> r.lines[k] \o Lines(r.passwords[k])]]

\* the remote-agent handler logs the request without the password
LogStart ==
  /\ logrun.pc = "start"
  /\ logrun' = IF logrun.handler = "agent"
                 THEN [Written(logrun, StartLines) EXCEPT !.pc = "job"]
                 ELSE [logrun EXCEPT !.pc = "login"]
  /\ UNCHANGED notLogVars

\* the remote job ends well, or the catch block logs the error
LogJobEnd ==
  /\ logrun.pc = "job"
  /\ \E ok \in BOOLEAN :
       logrun' = IF ok THEN [logrun EXCEPT !.pc = "done"]
                 ELSE [Written(logrun, ErrorLines) EXCEPT !.pc = "done"]
  /\ UNCHANGED notLogVars

\* one pass of the login for-loop of a Playwright handler
LogLoginStep ==
  /\ logrun.pc = "login"
  /\ \E ok \in BOOLEAN :
       logrun' = [Written(logrun, LAMBDA password : LoginLines(password, logrun.step, ok))
                    EXCEPT !.step = @ + 1,
                           !.pc = IF logrun.step + 1 < LoginSteps THEN "login" ELSE "done"]
  /\ UNCHANGED notLogVars

NextLog == LogStart \/ LogJobEnd \/ LogLoginStep

SpecLog == InitLog /\ [][NextLog]_vars

\* C39 (as claimed): the log output of a campaign request does not depend on
\* the content of the password: two requests that differ only in the
\* password's characters, of the same length, handled with the same page and
\* service behaviour, emit identical log lines.
C39_LogIndependentOfPassword ==
  Len(logrun.passwords[1]) = Len(logrun.passwords[2]) =>
    logrun.lines[1] = logrun.lines[2]

\* the argument is a host behind any number of scheme prefixes, well-formed
\* or with a double colon
PrefixesThenHost(parts) ==
  /\ parts[Len(parts)] = Host
  /\ \A k \in 1..(Len(parts) - 1) : parts[k] \in {Http, Https, HttpsDoubleColon}

\* C40 (as claimed): the ensureUrlProtocol of part_001 is idempotent on every
\* URL built from any number of well-formed or double-colon scheme prefixes
\* followed by a host: applying it twice gives what applying it once gives,
\* and the result carries exactly one scheme prefix.
C40_Idempotent ==
  (urlCall.pc = "twice" /\ urlCall.impl = "playwright" /\ PrefixesThenHost(urlCall.parts)) =>
    /\ urlCall.again = urlCall.returned
    /\ \E sch \in Schemes : urlCall.returned = sch \o Host

====
